---- MODULE Spec2Model ----
(***************************************************************************)
(* A model of the WAT/WAST parser (parse, walk and the parse* functions),  *)
(* of the AST builders it calls and of the shorthand-export buffer.        *)
(*                                                                         *)
(* The recursive-descent parser is a stack machine: `stack` holds one      *)
(* frame per active parse function, `current` is the token cursor and      *)
(* `ret` carries a callee's return value to its caller.  Functions that    *)
(* call no other recursive function (parseMemory, parseTable, parseImport, *)
(* parseExport, ...) are operators over a cursor record, applied whole by  *)
(* the action that calls them.                                             *)
(***************************************************************************)
EXTENDS Integers, Sequences, FiniteSets, TLC

(***************************************************************************)
(* Tokens: {type, value}.  The tokenizer is an external collaborator; the  *)
(* token list is the input of parse.                                       *)
(***************************************************************************)
LP == [type |-> "openParen", value |-> "("]
RP == [type |-> "closeParen", value |-> ")"]
DOT == [type |-> "dot", value |-> "."]
EQ == [type |-> "equal", value |-> "="]
KW(v) == [type |-> "keyword", value |-> v]
ID(v) == [type |-> "identifier", value |-> v]
STR(v) == [type |-> "string", value |-> v]
NUM(v) == [type |-> "number", value |-> v]
VT(v) == [type |-> "valtype", value |-> v]
NM(v) == [type |-> "name", value |-> v]
CMT(v) == [type |-> "comment", value |-> v]

\* The UTF-16 code units of the string values the inputs use (JS s.length
\* is the length of this sequence).
StrChars(s) ==
  CASE s = "a" -> <<"a">>
    [] s = "b" -> <<"b">>
    [] s = "m" -> <<"m">>
    [] s = "t" -> <<"t">>
    [] s = "g" -> <<"g">>
    [] s = "x" -> <<"x">>
    [] s = "hi" -> <<"h", "i">>
    [] s = "\\00" -> <<"\\", "0", "0">>
    [] s = "a\\n" -> <<"a", "\\", "n">>
    [] OTHER -> <<>>

\* The numeric value of the number tokens the inputs use.
NumVal(s) ==
  CASE s = "0" -> 0
    [] s = "1" -> 1
    [] s = "2" -> 2
    [] s = "42" -> 42
    [] OTHER -> 0

(***************************************************************************)
(* JS values that are not AST nodes.                                        *)
(***************************************************************************)
Undefined == [type |-> "undefined"]
Null == [type |-> "null"]
JsUndef == [js |-> "undefined"]
NoError == "none"
\* A JS array value; any other JS value has another js tag.
Arr(items) == [js |-> "array", items |-> items]
NonArrays == {[js |-> "string", items |-> <<>>], [js |-> "number", items |-> <<>>],
              [js |-> "object", items |-> <<>>]}
NoArgument == [js |-> "undefined", items |-> <<>>]

(***************************************************************************)
(* AST builders.  instruction and objectInstruction are the builders of    *)
(* compiler/AST/index.js; a failed assert() is the value AssertionError.   *)
(* The other builders the parser calls are those of the data model.        *)
(***************************************************************************)
AssertionError == [type |-> "AssertionError"]

isArrayLike(v) == v.js = "array"

\* A parameter with the default value []: an argument left undefined is [].
DefaultArray(args) == IF args.js = "undefined" THEN Arr(<<>>) ELSE args

instruction(id, args, namedArgs) ==
  IF ~isArrayLike(DefaultArray(args)) THEN AssertionError
  ELSE IF id = "block" THEN AssertionError
  ELSE IF id = "if" THEN AssertionError
  ELSE IF id = "loop" THEN AssertionError
  ELSE [type |-> "Instr", id |-> id, args |-> DefaultArray(args).items,
        namedArgs |-> namedArgs]

objectInstruction(id, object, args, namedArgs) ==
  IF ~isArrayLike(DefaultArray(args)) THEN AssertionError
  ELSE IF object.js # "string" THEN AssertionError
  ELSE [type |-> "Instr", id |-> id, object |-> object.s,
        args |-> DefaultArray(args).items, namedArgs |-> namedArgs]

\* A JS string value, as objectInstruction's `typeof object === 'string'` sees it.
JsStr(s) == [js |-> "string", s |-> s]

identifier(value) == [type |-> "Identifier", value |-> value]
withRaw(n, raw) == [raw |-> raw] @@ n
withLoc(n) == [loc |-> TRUE] @@ n
HasLoc(n) == "loc" \in DOMAIN n
program(body) == [type |-> "Program", body |-> body]
module(id, fields) == [type |-> "Module", id |-> id, fields |-> fields]
binaryModule(id, blob) == [type |-> "BinaryModule", id |-> id, blob |-> blob]
quoteModule(id, string) == [type |-> "QuoteModule", id |-> id, string |-> string]
moduleExportDescr(exportType, id) ==
  [type |-> "ModuleExportDescr", exportType |-> exportType, id |-> id]
moduleExport(name, descr) == [type |-> "ModuleExport", name |-> name, descr |-> descr]
moduleImport(mod, name, descr) ==
  [type |-> "ModuleImport", module |-> mod, name |-> name, descr |-> descr]
signature(params, results) ==
  [type |-> "Signature", params |-> params, results |-> results]
func(id, sig, body) == [type |-> "Func", id |-> id, signature |-> sig, body |-> body]
limit(min) == [type |-> "Limit", min |-> min]
limitMax(min, max) == [type |-> "Limit", min |-> min, max |-> max]
memory(limits, id) == [type |-> "Memory", limits |-> limits, id |-> id]
table(elementType, limits, name) ==
  [type |-> "Table", elementType |-> elementType, limits |-> limits, name |-> name]
tableElem(elementType, limits, name, elemIndices) ==
  [elemIndices |-> elemIndices] @@ table(elementType, limits, name)
globalType(valtype, mutability) ==
  [type |-> "GlobalType", valtype |-> valtype, mutability |-> mutability]
global(gtype, init, name) ==
  [type |-> "Global", globalType |-> gtype, init |-> init, name |-> name]
funcImportDescr(id, sig) == [type |-> "FuncImportDescr", id |-> id, signature |-> sig]
blockInstruction(label, instr, result) ==
  [type |-> "BlockInstruction", id |-> "block", label |-> label, instr |-> instr,
   result |-> result]
loopInstruction(label, result, instr) ==
  [type |-> "LoopInstruction", id |-> "loop", label |-> label, instr |-> instr,
   resulttype |-> result]
ifInstruction(label, test, result, consequent, alternate) ==
  [type |-> "IfInstruction", id |-> "if", label |-> label, test |-> test,
   result |-> result, consequent |-> consequent, alternate |-> alternate]
valtypeLiteral(name) == [type |-> "ValtypeLiteral", name |-> name]
stringLiteral(value) == [type |-> "StringLiteral", value |-> value]
leadingComment(value) == [type |-> "LeadingComment", value |-> value]
blockComment(value) == [type |-> "BlockComment", value |-> value]
\* numberLiteralFromRaw(raw, type): NumberLiteral {value, raw, type}.
numberLiteralFromRaw(raw, type) ==
  [type |-> "NumberLiteral", value |-> NumVal(raw), raw |-> raw, numtype |-> type]

(***************************************************************************)
(* The state of one call of parse.                                         *)
(***************************************************************************)
VARIABLES
  tokensList,                \* the input token list
  current,                   \* the token cursor (0-based, as in the source)
  inc,                       \* the counters of getUniqueName
  registredExportedElements, \* state.registredExportedElements
  stack,                     \* the active parse functions, innermost last
  ret,                       \* the value the last finished callee returned
  returning,                 \* TRUE while ret waits for its caller
  body,                      \* parse's local `body`
  status,                    \* "running" | "returned" | "thrown"
  error,                     \* the kind of the error thrown
  result,                    \* the Program returned
  regLog,                    \* history: every buffered export, with the module parsed then
  modLog,                    \* history: every Module node parseModule returned
  iterationStart,            \* history: per active function, the cursor at its last loop head
  astCall,                   \* a direct call of an AST builder: the builder and its arguments
  astResult                  \* what that call returned or threw

(***************************************************************************)
(* The state of the interpreter: one call of executeStackFrame, one call   *)
(* of i32.createValue, one call of createInstance.                         *)
(***************************************************************************)
VARIABLES
  frames,                    \* the stack frames being executed, the root frame first
  execStatus,                \* "idle" | "running" | "returned" | "thrown"
  execResult,                \* what executeStackFrame returned
  execError,                 \* the kind of the error executeStackFrame threw
  executed,                  \* history: the instructions executed, with their frame depth
  createValueArg,            \* the argument of i32.createValue
  createValueResult,         \* what i32.createValue returned
  moduleNode,                \* the Module node given to createInstance
  allocator,                 \* the allocator's store, by address index
  instance                   \* what createInstance returned

parserVars == <<tokensList, current, inc, registredExportedElements, stack, ret,
                returning, body, status, error, result, regLog, modLog,
                iterationStart>>

astVars == <<astCall, astResult>>

execVars == <<frames, execStatus, execResult, execError, executed>>

valueVars == <<createValueArg, createValueResult>>

instanceVars == <<moduleNode, allocator, instance>>

runtimeVars == <<execVars, valueVars, instanceVars>>

vars == <<parserVars, astVars, runtimeVars>>

\* No call of the interpreter is under way.
ExecIdle ==
  /\ frames = <<>>
  /\ execStatus = "idle"
  /\ execResult = [type |-> "undefined"]
  /\ execError = "none"
  /\ executed = <<>>

ValuesIdle ==
  /\ createValueArg = [type |-> "undefined"]
  /\ createValueResult = [type |-> "undefined"]

InstanceIdle ==
  /\ moduleNode = [type |-> "undefined"]
  /\ allocator = <<>>
  /\ instance = [type |-> "undefined"]

RuntimeIdle == ExecIdle /\ ValuesIdle /\ InstanceIdle

(***************************************************************************)
(* Token access.  Reading a property of tokensList[i] past the end is a    *)
(* TypeError in the source; every read below is guarded by Defined.        *)
(***************************************************************************)
Defined(c) == c < Len(tokensList)
Tok(c) == tokensList[c + 1]
TypeAt(c) == IF Defined(c) THEN Tok(c).type ELSE "undefined"

\* isKeyword(token, id)
isKeyword(token, id) == token.type = "keyword" /\ token.value = id

\* One position of lookaheadAndCheck: a keyword token must be the expected
\* keyword, any other token must have the expected type.
LookaheadMatch(token, expected) ==
  IF token.type = "keyword" THEN isKeyword(token, expected) ELSE expected = token.type

\* lookaheadAndCheck(t1): "T", "F", or "E" when it reads past the end.
lookaheadAndCheck1(c, t1) ==
  IF ~Defined(c) THEN "E"
  ELSE IF LookaheadMatch(Tok(c), t1) THEN "T" ELSE "F"

\* lookaheadAndCheck(t1, t2)
lookaheadAndCheck2(c, t1, t2) ==
  IF ~Defined(c) THEN "E"
  ELSE IF ~LookaheadMatch(Tok(c), t1) THEN "F"
  ELSE IF ~Defined(c + 1) THEN "E"
  ELSE IF LookaheadMatch(Tok(c + 1), t2) THEN "T" ELSE "F"

(***************************************************************************)
(* A cursor record threads the mutable state through the functions that    *)
(* are applied whole: cur (current), reg (the export buffer), inc (the     *)
(* name counters), err (the error thrown, NoError while none), val (the    *)
(* function's locals, then its return value).                              *)
(***************************************************************************)
Here == [cur |-> current, reg |-> registredExportedElements, inc |-> inc,
         err |-> NoError, val |-> Undefined]

Throw(p, kind) == [p EXCEPT !.err = kind]
Ret(p, v) == [p EXCEPT !.val = v]
Failed(p) == p.err # NoError

\* The error kinds: "CodeFrame" (the message holds codeFrameFromSource of the
\* token), "Plain" (new Error / TypeError without a code frame), "TypeError"
\* (a property of an undefined token was read), "Assertion" (an AST builder's
\* assert failed).
\* createUnexpectedToken reads token.loc: a TypeError past the end.
createUnexpectedToken(p) ==
  IF Defined(p.cur) THEN Throw(p, "CodeFrame") ELSE Throw(p, "TypeError")

eatToken(p) == IF Failed(p) THEN p ELSE [p EXCEPT !.cur = @ + 1]

eatTokenOfType(p, type) ==
  IF Failed(p) THEN p
  ELSE IF ~Defined(p.cur) THEN Throw(p, "TypeError")
  ELSE IF Tok(p.cur).type # type THEN Throw(p, "CodeFrame")
  ELSE eatToken(p)

RECURSIVE maybeIgnoreComment(_)
maybeIgnoreComment(p) ==
  IF Failed(p) \/ ~Defined(p.cur) THEN p
  ELSE IF Tok(p.cur).type = "comment" THEN maybeIgnoreComment(eatToken(p))
  ELSE p

\* getUniqueNameGenerator: <prefix>_<n>, n counting up from 0 per prefix.
UniquePrefixes == {"func", "memory", "table", "global", "block", "loop", "if"}

getUniqueName_Reissue(p, prefix) ==
  [p EXCEPT !.val = prefix \o "_" \o ToString(0)]

getUniqueName(p, prefix) ==
  [p EXCEPT !.val = prefix \o "_" \o ToString(p.inc[prefix]),
            !.inc = [@ EXCEPT ![prefix] = @ + 1]]

identifierFromToken(token) == withLoc(identifier(token.value))

registerExport(p, exportType, name, id) ==
  [p EXCEPT !.reg = Append(@, [exportType |-> exportType, name |-> name, id |-> id])]

(***************************************************************************)
(* Parse functions that call no recursive parse function.                  *)
(***************************************************************************)
RECURSIVE parseFuncResultLoop(_, _)
parseFuncResultLoop(p, results) ==
  IF Failed(p) THEN p
  ELSE IF ~Defined(p.cur) THEN Throw(p, "TypeError")
  ELSE IF Tok(p.cur).type = "closeParen" THEN Ret(p, results)
  ELSE IF Tok(p.cur).type # "valtype" THEN createUnexpectedToken(p)
  ELSE parseFuncResultLoop(eatToken(p), Append(results, Tok(p.cur).value))

parseFuncResult(p) == parseFuncResultLoop(p, <<>>)

RECURSIVE parseFuncParamMore(_, _)
parseFuncParamMore(p, params) ==
  IF ~Defined(p.cur) THEN Throw(p, "TypeError")
  ELSE IF Tok(p.cur).type = "valtype"
    THEN parseFuncParamMore(eatToken(p),
           Append(params, [id |-> JsUndef, valtype |-> Tok(p.cur).value]))
  ELSE Ret(p, params)

parseFuncParam(p) ==
  IF Failed(p) THEN p
  ELSE IF ~Defined(p.cur) THEN Throw(p, "TypeError")
  ELSE LET named == Tok(p.cur).type = "identifier"
           id == IF named THEN JsStr(Tok(p.cur).value) ELSE JsUndef
           p1 == IF named THEN eatToken(p) ELSE p
       IN IF ~Defined(p1.cur) THEN Throw(p1, "TypeError")
          ELSE IF Tok(p1.cur).type = "valtype"
            THEN LET first == <<[id |-> id, valtype |-> Tok(p1.cur).value]>>
                 IN IF named THEN Ret(eatToken(p1), first)
                    ELSE parseFuncParamMore(eatToken(p1), first)
          ELSE Ret(p1, <<>>)

parseTypeReference(p) ==
  IF Failed(p) THEN p
  ELSE IF ~Defined(p.cur) THEN Throw(p, "TypeError")
  ELSE IF Tok(p.cur).type = "identifier"
    THEN Ret(eatToken(p), identifierFromToken(Tok(p.cur)))
  ELSE IF Tok(p.cur).type = "number"
    THEN Ret(eatToken(p), numberLiteralFromRaw(Tok(p.cur).value, "i32"))
  ELSE Ret(p, Undefined)

\* parseFuncExport(funcId): buffers {exportType: "Func", name, id}.
parseFuncExport(p, funcId) ==
  IF Failed(p) THEN p
  ELSE IF ~Defined(p.cur) THEN Throw(p, "TypeError")
  ELSE IF Tok(p.cur).type # "string" THEN createUnexpectedToken(p)
  ELSE registerExport(eatToken(p), "Func", Tok(p.cur).value, identifier(funcId.value))

parseExportIndex(p) ==
  IF Failed(p) THEN p
  ELSE IF ~Defined(p.cur) THEN Throw(p, "TypeError")
  ELSE IF Tok(p.cur).type = "identifier"
    THEN Ret(eatToken(p), identifierFromToken(Tok(p.cur)))
  ELSE IF Tok(p.cur).type = "number"
    THEN Ret(eatToken(p), numberLiteralFromRaw(Tok(p.cur).value, "i32"))
  ELSE createUnexpectedToken(p)

ExportKeywordType(v) ==
  CASE v = "func" -> "Func"
    [] v = "table" -> "Table"
    [] v = "global" -> "Global"
    [] v = "memory" -> "Memory"
    [] OTHER -> ""

\* One iteration of the while loop of parseModuleExportDescr; d = [type,
\* index], the new one is the val of the result.
parseModuleExportDescr_iteration(p, d) ==
  IF Tok(p.cur).type = "keyword" /\ ExportKeywordType(Tok(p.cur).value) # ""
    THEN LET p1 == parseExportIndex(eatToken(p))
         IN Ret(eatToken(p1),
                [type |-> ExportKeywordType(Tok(p.cur).value), index |-> p1.val])
  ELSE Ret(eatToken(p), d)

\* The while loop of parseModuleExportDescr.
RECURSIVE parseModuleExportDescrLoop(_, _)
parseModuleExportDescrLoop(p, d) ==
  IF Failed(p) THEN p
  ELSE IF ~Defined(p.cur) THEN Throw(p, "TypeError")
  ELSE IF Tok(p.cur).type = "closeParen" THEN Ret(p, d)
  ELSE LET q == parseModuleExportDescr_iteration(p, d)
       IN parseModuleExportDescrLoop(q, q.val)

parseModuleExportDescr(p) ==
  IF Failed(p) THEN p
  ELSE IF ~Defined(p.cur) THEN Throw(p, "TypeError")   \* getStartLoc()
  ELSE LET p1 == parseModuleExportDescrLoop(eatTokenOfType(p, "openParen"),
                                            [type |-> "", index |-> Undefined])
       IN IF Failed(p1) THEN p1
          ELSE IF p1.val.type = "" THEN Throw(p1, "Plain")
          ELSE IF p1.val.index = Undefined THEN Throw(p1, "Plain")
          ELSE Ret(eatTokenOfType(p1, "closeParen"),
                   withLoc(moduleExportDescr(p1.val.type, p1.val.index)))

parseExport(p) ==
  IF Failed(p) THEN p
  ELSE IF ~Defined(p.cur) THEN Throw(p, "TypeError")
  ELSE IF Tok(p.cur).type # "string" THEN Throw(p, "Plain")
  ELSE LET p1 == parseModuleExportDescr(eatToken(p))
       IN IF Failed(p1) THEN p1 ELSE Ret(p1, moduleExport(Tok(p.cur).value, p1.val))

(***************************************************************************)
(* The string-literal decoder: \xx (two hex digits), \n, \t, \", \\ are    *)
(* one byte each; any other character is its code.                         *)
(***************************************************************************)
CharCode(c) ==
  CASE c = "a" -> 97 [] c = "b" -> 98 [] c = "g" -> 103 [] c = "h" -> 104
    [] c = "i" -> 105 [] c = "m" -> 109 [] c = "n" -> 110 [] c = "t" -> 116
    [] c = "x" -> 120 [] c = "0" -> 48 [] c = "\\" -> 92 [] c = "\"" -> 34
    [] OTHER -> 63

ControlCode(c) ==
  CASE c = "n" -> 10 [] c = "t" -> 9 [] c = "\\" -> 92 [] c = "\"" -> 34 [] OTHER -> -1

HexDigit(c) == CASE c = "0" -> 0 [] c = "a" -> 10 [] c = "b" -> 11 [] OTHER -> -1

RECURSIVE parseStringFrom(_, _)
parseStringFrom(chars, i) ==
  IF i > Len(chars) THEN <<>>
  ELSE IF chars[i] # "\\" THEN <<CharCode(chars[i])>> \o parseStringFrom(chars, i + 1)
  ELSE IF i + 1 <= Len(chars) /\ ControlCode(chars[i + 1]) >= 0
    THEN <<ControlCode(chars[i + 1])>> \o parseStringFrom(chars, i + 2)
  ELSE IF i + 2 <= Len(chars) /\ HexDigit(chars[i + 1]) >= 0 /\ HexDigit(chars[i + 2]) >= 0
    THEN <<16 * HexDigit(chars[i + 1]) + HexDigit(chars[i + 2])>>
         \o parseStringFrom(chars, i + 3)
  ELSE <<CharCode(chars[i])>> \o parseStringFrom(chars, i + 1)

parseString(value) == parseStringFrom(StrChars(value), 1)

\* value.length of a JS string
StringLength(value) == Len(StrChars(value))

(***************************************************************************)
(* parseMemory; val = [id, limits].                                        *)
(***************************************************************************)
parseMemory_name(p) ==
  IF Failed(p) THEN p
  ELSE LET p1 == getUniqueName(p, "memory")
       IN IF ~Defined(p1.cur) THEN Throw(p1, "TypeError")
          ELSE IF Tok(p1.cur).type \in {"string", "identifier"}
            THEN Ret(eatToken(p1), [id |-> identifier(Tok(p1.cur).value), limits |-> limit(0)])
          ELSE Ret(p1, [id |-> withRaw(identifier(p1.val), ""), limits |-> limit(0)])

parseMemory_data(p) ==
  IF Failed(p) THEN p
  ELSE LET la == lookaheadAndCheck2(p.cur, "openParen", "data")
           p1 == eatToken(eatToken(p))
       IN IF la = "E" THEN Throw(p, "TypeError")
          ELSE IF la = "F" THEN p
          ELSE IF ~Defined(p1.cur) THEN Throw(p1, "TypeError")
          ELSE IF Tok(p1.cur).type # "string" THEN Throw(p1, "CodeFrame")
          ELSE eatTokenOfType(
                 Ret(eatToken(p1),
                     [p.val EXCEPT !.limits = limit(StringLength(Tok(p1.cur).value))]),
                 "closeParen")

parseMemory_export(p) ==
  IF Failed(p) THEN p
  ELSE LET la == lookaheadAndCheck2(p.cur, "openParen", "export")
           p1 == eatToken(eatToken(p))
       IN IF la = "E" THEN Throw(p, "TypeError")
          ELSE IF la = "F" THEN p
          ELSE IF ~Defined(p1.cur) THEN Throw(p1, "TypeError")
          ELSE IF Tok(p1.cur).type # "string" THEN createUnexpectedToken(p1)
          ELSE eatTokenOfType(
                 registerExport(eatToken(p1), "Memory", Tok(p1.cur).value, p.val.id),
                 "closeParen")

parseMemory_sig(p) ==
  IF Failed(p) THEN p
  ELSE IF ~Defined(p.cur) THEN Throw(p, "TypeError")
  ELSE IF Tok(p.cur).type # "number" THEN p
  ELSE LET p1 == eatToken(p)
           min == NumVal(Tok(p.cur).value)
       IN IF ~Defined(p1.cur) THEN Throw(p1, "TypeError")
          ELSE IF Tok(p1.cur).type = "number"
            THEN Ret(eatToken(p1),
                     [p.val EXCEPT !.limits = limitMax(min, NumVal(Tok(p1.cur).value))])
          ELSE Ret(p1, [p.val EXCEPT !.limits = limit(min)])

parseMemory(p) ==
  LET p1 == parseMemory_sig(parseMemory_export(parseMemory_data(parseMemory_name(p))))
  IN IF Failed(p1) THEN p1 ELSE Ret(p1, memory(p1.val.limits, p1.val.id))

(***************************************************************************)
(* parseTable; val = [name, limit, elemIndices].                           *)
(***************************************************************************)
parseTable_name(p) ==
  IF Failed(p) THEN p
  ELSE LET p1 == getUniqueName(p, "table")
       IN IF ~Defined(p1.cur) THEN Throw(p1, "TypeError")
          ELSE IF Tok(p1.cur).type \in {"string", "identifier"}
            THEN Ret(eatToken(p1), [name |-> identifierFromToken(Tok(p1.cur)),
                                    limit |-> limit(0), elemIndices |-> <<>>])
          ELSE Ret(p1, [name |-> withRaw(identifier(p1.val), ""),
                        limit |-> limit(0), elemIndices |-> <<>>])

\* while (token.type === tokens.identifier) elemIndices.push(...)
RECURSIVE parseTable_elemLoop(_)
parseTable_elemLoop(p) ==
  IF ~Defined(p.cur) THEN Throw(p, "TypeError")
  ELSE IF Tok(p.cur).type = "identifier"
    THEN parseTable_elemLoop(
           Ret(eatToken(p),
               [p.val EXCEPT !.elemIndices = Append(@, identifier(Tok(p.cur).value))]))
  ELSE p

\* The table type: <nat> <nat>? and then one token eaten unconditionally.
parseTable_limits(p) ==
  LET p1 == eatToken(p)
      min == NumVal(Tok(p.cur).value)
  IN IF ~Defined(p1.cur) THEN Throw(p1, "TypeError")
     ELSE IF Tok(p1.cur).type = "number"
       THEN eatToken(Ret(eatToken(p1),
              [p.val EXCEPT !.limit = limitMax(min, NumVal(Tok(p1.cur).value))]))
     ELSE eatToken(Ret(p1, [p.val EXCEPT !.limit = limit(min)]))

\* One iteration of `while (token.type !== tokens.closeParen)`.
parseTable_iteration(p) ==
  LET laElem == lookaheadAndCheck2(p.cur, "openParen", "elem")
      laExport == lookaheadAndCheck2(p.cur, "openParen", "export")
      p2 == eatToken(eatToken(p))
  IN IF laElem = "E" THEN Throw(p, "TypeError")
     ELSE IF laElem = "T" THEN eatTokenOfType(parseTable_elemLoop(p2), "closeParen")
     ELSE IF laExport = "T"
       THEN IF ~Defined(p2.cur) THEN Throw(p2, "TypeError")
            ELSE IF Tok(p2.cur).type # "string" THEN createUnexpectedToken(p2)
            ELSE eatTokenOfType(
                   registerExport(eatToken(p2), "Table", Tok(p2.cur).value, p.val.name),
                   "closeParen")
     ELSE IF isKeyword(Tok(p.cur), "anyfunc") THEN eatToken(p)
     ELSE IF Tok(p.cur).type = "number" THEN parseTable_limits(p)
     ELSE createUnexpectedToken(p)

RECURSIVE parseTable_loop(_)
parseTable_loop(p) ==
  IF Failed(p) THEN p
  ELSE IF ~Defined(p.cur) THEN Throw(p, "TypeError")
  ELSE IF Tok(p.cur).type = "closeParen" THEN p
  ELSE parseTable_loop(parseTable_iteration(p))

parseTable(p) ==
  LET p1 == parseTable_loop(parseTable_name(p))
  IN IF Failed(p1) THEN p1
     ELSE IF Len(p1.val.elemIndices) > 0
       THEN Ret(p1, tableElem("anyfunc", p1.val.limit, p1.val.name, p1.val.elemIndices))
     ELSE Ret(p1, table("anyfunc", p1.val.limit, p1.val.name))

(***************************************************************************)
(* parseImport                                                             *)
(***************************************************************************)
\* The (param ...) / (result ...) loop of a func import; val = [params, results].
RECURSIVE parseImport_funcSig(_)
parseImport_funcSig(p) ==
  IF Failed(p) THEN p
  ELSE IF ~Defined(p.cur) THEN Throw(p, "TypeError")
  ELSE IF Tok(p.cur).type # "openParen" THEN p
  ELSE LET p1 == eatToken(p)
           laParam == lookaheadAndCheck1(p1.cur, "param")
           laResult == lookaheadAndCheck1(p1.cur, "result")
           pp == parseFuncParam(eatToken(p1))
           pr == parseFuncResult(eatToken(p1))
       IN IF laParam = "E" THEN Throw(p1, "TypeError")
          ELSE IF laParam = "T"
            THEN IF Failed(pp) THEN pp
                 ELSE parseImport_funcSig(eatTokenOfType(
                        Ret(pp, [p.val EXCEPT !.params = @ \o pp.val]), "closeParen"))
          ELSE IF laResult = "T"
            THEN IF Failed(pr) THEN pr
                 ELSE parseImport_funcSig(eatTokenOfType(
                        Ret(pr, [p.val EXCEPT !.results = @ \o pr.val]), "closeParen"))
          ELSE createUnexpectedToken(p1)

parseImport_func(p, dflt) ==
  LET p1 == eatToken(p)
      named == Defined(p1.cur) /\ Tok(p1.cur).type = "identifier"
      fnName == IF named THEN identifierFromToken(Tok(p1.cur)) ELSE dflt
      p2 == IF named THEN eatToken(p1) ELSE p1
      p3 == parseImport_funcSig(Ret(p2, [params |-> <<>>, results |-> <<>>]))
  IN IF ~Defined(p1.cur) THEN Throw(p1, "TypeError")
     ELSE IF Failed(p3) THEN p3
     ELSE Ret(p3, funcImportDescr(fnName, signature(p3.val.params, p3.val.results)))

parseImport_global(p) ==
  LET p1 == eatToken(p)
      p2 == eatTokenOfType(eatToken(p1), "keyword")
  IN IF ~Defined(p1.cur) THEN Throw(p1, "TypeError")
     ELSE IF Tok(p1.cur).type = "openParen"
       THEN IF Failed(p2) THEN p2
            ELSE IF ~Defined(p2.cur) THEN Throw(p2, "TypeError")
            ELSE eatTokenOfType(
                   Ret(eatToken(p2), globalType(Tok(p2.cur).value, "var")), "closeParen")
     ELSE Ret(eatTokenOfType(p1, "valtype"), globalType(Tok(p1.cur).value, "const"))

parseImport_descr(p, dflt) ==
  IF Failed(p) THEN p
  ELSE IF ~Defined(p.cur) THEN Throw(p, "TypeError")
  ELSE IF isKeyword(Tok(p.cur), "func") THEN parseImport_func(p, dflt)
  ELSE IF isKeyword(Tok(p.cur), "global") THEN parseImport_global(p)
  ELSE IF isKeyword(Tok(p.cur), "memory") THEN parseMemory(eatToken(p))
  ELSE IF isKeyword(Tok(p.cur), "table") THEN parseTable(eatToken(p))
  ELSE Throw(p, "Plain")

parseImport(p) ==
  IF Failed(p) THEN p
  ELSE IF ~Defined(p.cur) THEN Throw(p, "TypeError")
  ELSE IF Tok(p.cur).type # "string" THEN Throw(p, "Plain")
  ELSE LET p1 == eatToken(p)
           moduleName == Tok(p.cur).value
       IN IF ~Defined(p1.cur) THEN Throw(p1, "TypeError")
          ELSE IF Tok(p1.cur).type # "string" THEN Throw(p1, "Plain")
          ELSE LET name == Tok(p1.cur).value
                   p2 == parseImport_descr(
                           eatTokenOfType(eatToken(p1), "openParen"),
                           identifier(moduleName \o "." \o name))
                   p3 == eatTokenOfType(p2, "closeParen")
               IN IF Failed(p3) THEN p3
                  ELSE Ret(p3, moduleImport(moduleName, name, p2.val))

(***************************************************************************)
(* parseData, parseType, parseStart                                        *)
(***************************************************************************)
\* The offset expression of a data segment: ( i32.const n ) or ( <name> n ).
parseData_offset(p) ==
  IF Failed(p) THEN p
  ELSE IF ~Defined(p.cur) THEN Throw(p, "TypeError")
  ELSE IF Tok(p.cur).type = "valtype"
    THEN LET p1 == eatTokenOfType(eatToken(p), "dot")
             p2 == eatTokenOfType(p1, "name")
         IN IF Failed(p1) THEN p1
            ELSE IF ~Defined(p1.cur) THEN Throw(p1, "TypeError")
            ELSE IF Tok(p1.cur).value # "const" THEN Throw(p1, "Plain")
            ELSE IF Failed(p2) THEN p2
            ELSE IF ~Defined(p2.cur) THEN Throw(p2, "TypeError")
            ELSE eatTokenOfType(
                   Ret(eatToken(p2),
                       objectInstruction("const", JsStr("i32"),
                         Arr(<<numberLiteralFromRaw(Tok(p2.cur).value, "i32")>>), <<>>)),
                   "closeParen")
  ELSE LET p1 == eatTokenOfType(p, "name")
       IN IF Failed(p1) THEN p1
          ELSE IF ~Defined(p1.cur) THEN Throw(p1, "TypeError")
          ELSE eatTokenOfType(
                 Ret(eatToken(p1),
                     instruction("get_global",
                       Arr(<<numberLiteralFromRaw(Tok(p1.cur).value, "i32")>>), <<>>)),
                 "closeParen")

parseData(p) ==
  IF Failed(p) THEN p
  ELSE IF ~Defined(p.cur) THEN Throw(p, "TypeError")
  ELSE LET hasIdx == Tok(p.cur).type = "number"
           memidx == IF hasIdx THEN NumVal(Tok(p.cur).value) ELSE 0
           p1 == IF hasIdx THEN eatToken(p) ELSE p
           p2 == parseData_offset(eatTokenOfType(p1, "openParen"))
       IN IF Failed(p2) THEN p2
          ELSE IF ~Defined(p2.cur) THEN Throw(p2, "TypeError")
          ELSE Ret(eatToken(p2),
                   [type |-> "Data", memoryIndex |-> memidx, offset |-> p2.val,
                    init |-> [type |-> "Bytes",
                              values |-> IF Tok(p2.cur).type = "string"
                                         THEN parseString(Tok(p2.cur).value) ELSE <<>>]])

parseStart(p) ==
  IF Failed(p) THEN p
  ELSE IF ~Defined(p.cur) THEN Throw(p, "TypeError")
  ELSE IF Tok(p.cur).type = "identifier"
    THEN Ret(eatToken(p), [type |-> "Start", index |-> identifierFromToken(Tok(p.cur))])
  ELSE IF Tok(p.cur).type = "number"
    THEN Ret(eatToken(p), [type |-> "Start",
                           index |-> numberLiteralFromRaw(Tok(p.cur).value, "i32")])
  ELSE Throw(p, "Plain")

(***************************************************************************)
(* parseType                                                               *)
(***************************************************************************)
\* ( param ... ) of a type definition; val = the params.
parseType_params(p) ==
  IF Failed(p) THEN p
  ELSE LET look == lookaheadAndCheck2(p.cur, "openParen", "param")
       IN IF look = "E" THEN Throw(p, "TypeError")
          ELSE IF look = "F" THEN Ret(p, <<>>)
          ELSE LET q == parseFuncParam(eatToken(eatToken(p)))
               IN Ret(eatTokenOfType(q, "closeParen"), q.val)

\* ( result ... ) of a type definition; val = the results.
parseType_result(p) ==
  IF Failed(p) THEN p
  ELSE LET look == lookaheadAndCheck2(p.cur, "openParen", "result")
       IN IF look = "E" THEN Throw(p, "TypeError")
          ELSE IF look = "F" THEN Ret(p, <<>>)
          ELSE LET q == parseFuncResult(eatToken(eatToken(p)))
               IN Ret(eatTokenOfType(q, "closeParen"), q.val)

typeInstruction(id, sig) == [type |-> "TypeInstruction", id |-> id, functype |-> sig]

parseType(p) ==
  IF Failed(p) THEN p
  ELSE IF ~Defined(p.cur) THEN Throw(p, "TypeError")
  ELSE LET named == Tok(p.cur).type = "identifier"
           id == IF named THEN identifierFromToken(Tok(p.cur)) ELSE Undefined
           p1 == IF named THEN eatToken(p) ELSE p
           look == lookaheadAndCheck2(p1.cur, "openParen", "func")
           p2 == eatToken(eatToken(p1))
           p3 == parseType_params(p2)
           p4 == parseType_result(p3)
       IN IF look = "E" THEN Throw(p1, "TypeError")
          ELSE IF look = "F" THEN Ret(p1, typeInstruction(id, signature(<<>>, <<>>)))
          ELSE IF ~Defined(p2.cur) THEN Throw(p2, "TypeError")
          ELSE IF Tok(p2.cur).type = "closeParen"
            THEN Ret(eatToken(p2), typeInstruction(id, signature(<<>>, <<>>)))
          ELSE IF Failed(p4) THEN p4
          ELSE Ret(eatTokenOfType(p4, "closeParen"),
                   typeInstruction(id, signature(p3.val, p4.val)))

(***************************************************************************)
(* The call stack.                                                         *)
(***************************************************************************)
Top == stack[Len(stack)]
Pop == SubSeq(stack, 1, Len(stack) - 1)
SetTop(f) == [stack EXCEPT ![Len(stack)] = f]
Push(f, callee) == Append(SetTop(f), callee)

Running(fn) == status = "running" /\ stack # <<>> /\ Top.fn = fn
Stepping(fn, pc) == Running(fn) /\ ~returning /\ Top.pc = pc
Resuming(fn) == Running(fn) /\ returning

\* The parseModule call being executed, by the cursor position at which it
\* began; 0 outside any module.
ModuleFrames == {i \in 1..Len(stack) : stack[i].fn = "parseModule"}
InnermostModule ==
  IF ModuleFrames = {} THEN 0
  ELSE stack[CHOOSE i \in ModuleFrames : \A j \in ModuleFrames : j <= i].serial

\* The exports a step added to the buffer, tagged with the module being parsed.
NewlyRegistered(p) ==
  IF Len(p.reg) > Len(registredExportedElements)
  THEN [i \in 1..(Len(p.reg) - Len(registredExportedElements)) |->
          [entry |-> p.reg[Len(registredExportedElements) + i], mod |-> InnermostModule]]
  ELSE <<>>

\* The loop a function stands at the head of: parse's own loop outside every
\* function, none at the start of a function, and the loop of its pc.
NoIteration == [loop |-> "", cursor |-> -1]
LoopHead ==
  IF returning THEN ""
  ELSE IF stack = <<>> THEN "parse"
  ELSE IF Top.pc = "start" THEN ""
  ELSE Top.pc

\* iterationStart after a step that leaves the stack stk: the function that
\* took the step at the head of a loop has the cursor of that moment noted,
\* the functions that returned are dropped, a called one has nothing noted.
Iterated(stk) ==
  LET d == Len(stack) + 1
      noted == IF LoopHead = "" THEN iterationStart
               ELSE [iterationStart EXCEPT ![d] = [loop |-> LoopHead, cursor |-> current]]
  IN [i \in 1..(Len(stk) + 1) |-> IF i <= d THEN noted[i] ELSE NoIteration]

\* A step of the parser: the cursor record's state becomes the state, or its
\* error is thrown out of parse.
CommitLog(p, stk, rv, isRet, mlog) ==
  /\ IF Failed(p)
     THEN /\ status' = "thrown"
          /\ error' = p.err
          /\ current' = p.cur
          /\ UNCHANGED <<inc, registredExportedElements, stack, ret, returning, regLog,
                         modLog, iterationStart>>
     ELSE /\ current' = p.cur
          /\ inc' = p.inc
          /\ registredExportedElements' = p.reg
          /\ regLog' = regLog \o NewlyRegistered(p)
          /\ modLog' = mlog
          /\ stack' = stk
          /\ ret' = rv
          /\ returning' = isRet
          /\ iterationStart' = Iterated(stk)
          /\ UNCHANGED <<status, error>>
  /\ UNCHANGED <<tokensList, body, result, astCall, astResult, runtimeVars>>

Commit(p, stk, rv, isRet) == CommitLog(p, stk, rv, isRet, modLog)

\* An AST builder's result: the node, or its failed assert thrown.
Built(p, node) ==
  IF Failed(p) THEN p
  ELSE IF node = AssertionError THEN Throw(p, "Assertion") ELSE Ret(p, node)

\* The function on top of the stack returns v.
Return(p, v) == Commit(p, Pop, v, TRUE)
\* The function on top of the stack goes on with frame f.
Continue(p, f) == Commit(p, SetTop(f), Undefined, FALSE)
\* The function on top of the stack, left in frame f, calls callee.
Call(p, f, callee) == Commit(p, Push(f, callee), Undefined, FALSE)

(***************************************************************************)
(* parse: while (current < tokensList.length) body.push(walk())            *)
(***************************************************************************)
WalkFrame == [fn |-> "walk", pc |-> "start"]

parse_walk ==
  /\ status = "running" /\ stack = <<>> /\ ~returning
  /\ current < Len(tokensList)
  /\ Commit(Here, <<WalkFrame>>, Undefined, FALSE)

parse_push ==
  /\ status = "running" /\ stack = <<>> /\ returning
  /\ body' = Append(body, ret)
  /\ ret' = Undefined
  /\ returning' = FALSE
  /\ UNCHANGED <<tokensList, current, inc, registredExportedElements, stack, status,
                 error, result, regLog, modLog, iterationStart, astCall, astResult,
                 runtimeVars>>

parse_return ==
  /\ status = "running" /\ stack = <<>> /\ ~returning
  /\ ~(current < Len(tokensList))
  /\ status' = "returned"
  /\ result' = program(body)
  /\ UNCHANGED <<tokensList, current, inc, registredExportedElements, stack, ret,
                 returning, body, error, regLog, modLog, iterationStart, astCall,
                 astResult, runtimeVars>>

(***************************************************************************)
(* walk                                                                    *)
(***************************************************************************)
\* The forms walk parses by calling a recursive parse function.
CalledForms == {"func", "module", "global", "loop", "block", "elem"}
\* The forms walk parses whole.
LeafForms == {"export", "import", "memory", "data", "table", "type", "start"}

\* The form that starts at the cursor, once `(` is eaten: a keyword of the
\* dispatch, or "instr" (the fall-through to parseFuncInstr).
FormAt(c) ==
  IF Tok(c).type = "keyword" /\ Tok(c).value \in (CalledForms \cup LeafForms)
  THEN Tok(c).value ELSE "instr"

walk_leafForm(p, form) ==
  CASE form = "export" -> parseExport(p)
    [] form = "import" -> eatTokenOfType(parseImport(p), "closeParen")
    [] form = "memory" -> eatTokenOfType(parseMemory(p), "closeParen")
    [] form = "data" -> eatTokenOfType(parseData(p), "closeParen")
    [] form = "table" -> eatTokenOfType(parseTable(p), "closeParen")
    [] form = "type" -> eatTokenOfType(parseType(p), "closeParen")
    [] form = "start" -> eatTokenOfType(parseStart(p), "closeParen")

\* walk on a form it parses whole, on a comment, or on a token it rejects.
walk_leaf ==
  /\ Stepping("walk", "start")
  /\ LET p1 == eatToken(Here)
         p == IF Tok(current).type = "openParen"
              THEN IF ~Defined(p1.cur) THEN Throw(p1, "TypeError")
                   ELSE walk_leafForm(eatToken(p1), FormAt(p1.cur))
              ELSE IF Tok(current).type = "comment"
                THEN Ret(p1, IF Tok(current).value = "leading"
                             THEN leadingComment(Tok(current).value)
                             ELSE blockComment(Tok(current).value))
              ELSE createUnexpectedToken(Here)
     IN /\ Tok(current).type = "openParen" /\ Defined(current + 1)
           => FormAt(current + 1) \in LeafForms
        /\ Return(p, withLoc(p.val))

CalleeFrame(form, c) ==
  CASE form = "func" -> [fn |-> "parseFunc", pc |-> "start"]
    [] form = "module" -> [fn |-> "parseModule", pc |-> "start", serial |-> c]
    [] form = "global" -> [fn |-> "parseGlobal", pc |-> "start"]
    [] form = "loop" -> [fn |-> "parseLoop", pc |-> "start"]
    [] form = "block" -> [fn |-> "parseBlock", pc |-> "start"]
    [] form = "elem" -> [fn |-> "parseElem", pc |-> "start"]
    [] form = "instr" -> [fn |-> "parseFuncInstr", pc |-> "start"]

\* walk on a form it parses by calling parseFunc, parseModule, parseGlobal,
\* parseLoop, parseBlock, parseElem or parseFuncInstr.
walk_call ==
  /\ Stepping("walk", "start")
  /\ Tok(current).type = "openParen" /\ Defined(current + 1)
  /\ LET form == FormAt(current + 1)
         p == IF form = "instr" THEN eatToken(Here) ELSE eatToken(eatToken(Here))
     IN /\ form \notin LeafForms
        /\ Call(p, [Top EXCEPT !.pc = form], CalleeFrame(form, p.cur))

\* The rest of walk once the function it called has returned.
walk_return ==
  /\ Resuming("walk")
  /\ LET p == CASE Top.pc = "func" -> eatTokenOfType(maybeIgnoreComment(Here), "closeParen")
                [] Top.pc \in {"module", "loop"} -> Here
                [] Top.pc \in {"block", "global", "elem"} ->
                     eatTokenOfType(Here, "closeParen")
                [] Top.pc = "instr" ->
                     LET p1 == maybeIgnoreComment(Here)
                     IN IF Defined(p1.cur) THEN eatTokenOfType(p1, "closeParen") ELSE p1
     IN Return(p, withLoc(ret))

(***************************************************************************)
(* parseModule                                                             *)
(***************************************************************************)
\* The string tokens of a binary or quote module.
RECURSIVE parseModule_blob(_, _, _)
parseModule_blob(p, blob, ignoreComments) ==
  IF Failed(p) THEN p
  ELSE IF ~Defined(p.cur) THEN Throw(p, "TypeError")
  ELSE IF Tok(p.cur).type = "string"
    THEN parseModule_blob(IF ignoreComments THEN maybeIgnoreComment(eatToken(p))
                          ELSE eatToken(p),
                          Append(blob, Tok(p.cur).value), ignoreComments)
  ELSE Ret(eatTokenOfType(p, "closeParen"), blob)

\* parseModule up to its field loop: the name, then a binary or quote module
\* parsed whole.  val = [name, kind, blob].
parseModule_head(p) ==
  IF ~Defined(p.cur) THEN Throw(p, "TypeError")
  ELSE LET named == Tok(p.cur).type = "identifier"
           name == IF named THEN JsStr(Tok(p.cur).value) ELSE Null
           p1 == IF named THEN eatToken(p) ELSE p
       IN IF ~Defined(p1.cur) THEN Throw(p1, "TypeError")
          ELSE LET isBinary == Tok(p1.cur).type = "name" /\ Tok(p1.cur).value = "binary"
                   p2 == IF isBinary THEN eatToken(p1) ELSE p1
               IN IF ~Defined(p2.cur) THEN Throw(p2, "TypeError")
                  ELSE LET isQuote == Tok(p2.cur).type = "name" /\ Tok(p2.cur).value = "quote"
                           p3 == IF isQuote THEN eatToken(p2) ELSE p2
                           p4 == parseModule_blob(p3, <<>>, isBinary)
                       IN IF isBinary \/ isQuote
                          THEN IF Failed(p4) THEN p4
                               ELSE Ret(p4, [name |-> name, blob |-> p4.val,
                                             kind |-> IF isBinary THEN "binary" ELSE "quote"])
                          ELSE Ret(p3, [name |-> name, blob |-> <<>>, kind |-> "text"])

parseModule_start ==
  /\ Stepping("parseModule", "start")
  /\ LET p == parseModule_head(Here)
     IN IF ~Failed(p) /\ p.val.kind = "binary"
          THEN Return(p, binaryModule(p.val.name, p.val.blob))
        ELSE IF ~Failed(p) /\ p.val.kind = "quote"
          THEN Return(p, quoteModule(p.val.name, p.val.blob))
        ELSE Continue(Ret(p, Undefined),
                      [Top EXCEPT !.pc = "fields"] @@
                      [name |-> p.val.name, moduleFields |-> <<>>])

\* while (token.type !== closeParen) moduleFields.push(walk())
parseModule_walk ==
  /\ Stepping("parseModule", "fields")
  /\ TypeAt(current) # "closeParen"
  /\ IF Defined(current) THEN Call(Here, Top, WalkFrame)
     ELSE Commit(Throw(Here, "TypeError"), stack, Undefined, FALSE)

\* The synthesized ModuleExport of one buffered shorthand export.
SynthesizedExport(decl) ==
  moduleExport(decl.name, moduleExportDescr(decl.exportType, decl.id))

\* The rest of the loop body once walk has returned: the field is pushed, the
\* buffer is flushed behind it and emptied.
parseModule_push ==
  /\ Resuming("parseModule")
  /\ LET flushed == [i \in 1..Len(registredExportedElements) |->
                       SynthesizedExport(registredExportedElements[i])]
     IN Continue([Here EXCEPT !.reg = <<>>],
                 [Top EXCEPT !.moduleFields = Append(@, ret) \o flushed])

parseModule_return ==
  /\ Stepping("parseModule", "fields")
  /\ TypeAt(current) = "closeParen"
  /\ LET node == module(Top.name, Top.moduleFields)
     IN CommitLog(eatTokenOfType(Here, "closeParen"), Pop, node, TRUE,
                  Append(modLog, [serial |-> Top.serial, node |-> node]))

(***************************************************************************)
(* parseFunc                                                               *)
(***************************************************************************)
\* The name taken without the generator's counter: <prefix>_0 every time.
parseName_Reissue(p, prefix) ==
  LET g == getUniqueName_Reissue(p, prefix)
  IN IF Failed(p) THEN p
     ELSE IF ~Defined(g.cur) THEN Throw(g, "TypeError")
     ELSE IF Tok(g.cur).type = "identifier"
       THEN Ret(eatToken(g), identifierFromToken(Tok(g.cur)))
     ELSE Ret(g, withRaw(identifier(g.val), ""))

\* The name of a func, block, loop, if or global: the identifier token, or
\* the generated name with raw "".
parseName(p, prefix) ==
  LET g == getUniqueName(p, prefix)
  IN IF Failed(p) THEN p
     ELSE IF ~Defined(g.cur) THEN Throw(g, "TypeError")
     ELSE IF Tok(g.cur).type = "identifier"
       THEN Ret(eatToken(g), identifierFromToken(Tok(g.cur)))
     ELSE Ret(g, withRaw(identifier(g.val), ""))

parseFunc_start ==
  /\ Stepping("parseFunc", "start")
  /\ LET p == parseName(Here, "func")
     IN Continue(Ret(maybeIgnoreComment(p), Undefined),
                 [Top EXCEPT !.pc = "loop"] @@
                 [fnName |-> p.val, typeRef |-> Undefined, fnBody |-> <<>>,
                  fnParams |-> <<>>, fnResult |-> <<>>])

\* What follows a `(` where an instruction may stand: "instr" when
\* lookaheadAndCheck(name), lookaheadAndCheck(valtype) or any keyword, else
\* "other"; "E" past the end.
InstrAhead(c) ==
  IF ~Defined(c) THEN "E"
  ELSE IF Tok(c).type \in {"name", "valtype", "keyword"} THEN "instr" ELSE "other"

FuncFieldKeywords == {"param", "result", "export", "type"}

\* What the func loop meets: "plain", "field", "folded", "reject", "done".
FuncLoopCase(c) ==
  IF ~Defined(c) THEN "E"
  ELSE IF Tok(c).type \in {"name", "valtype"} THEN "plain"
  ELSE IF Tok(c).type # "openParen" THEN "done"
  ELSE IF ~Defined(c + 1) THEN "E"
  ELSE IF Tok(c + 1).type = "keyword" /\ Tok(c + 1).value \in FuncFieldKeywords
    THEN "field"
  ELSE IF InstrAhead(c + 1) = "instr" THEN "folded"
  ELSE "reject"

\* One ( param ), ( result ), ( export ) or ( type ) of a func, or the token
\* after `(` that no branch takes.
parseFunc_field ==
  /\ Stepping("parseFunc", "loop")
  /\ FuncLoopCase(current) \in {"field", "reject"}
  /\ LET kw == IF FuncLoopCase(current) = "field" THEN Tok(current + 1).value ELSE ""
         p0 == eatToken(eatToken(Here))
         p == CASE kw = "param" -> parseFuncParam(p0)
                [] kw = "result" -> parseFuncResult(p0)
                [] kw = "export" -> parseFuncExport(p0, Top.fnName)
                [] kw = "type" -> parseTypeReference(p0)
                [] OTHER -> createUnexpectedToken(eatToken(Here))
         f == CASE kw = "param" -> [Top EXCEPT !.fnParams = @ \o p.val]
                [] kw = "result" -> [Top EXCEPT !.fnResult = @ \o p.val]
                [] kw = "type" -> [Top EXCEPT !.typeRef = p.val]
                [] OTHER -> Top
     IN Continue(Ret(eatTokenOfType(p, "closeParen"), Undefined), f)

ParseFuncInstrFrame == [fn |-> "parseFuncInstr", pc |-> "start"]

\* fnBody.push(parseFuncInstr()): a plain instruction, or a folded one
\* behind its `(`.
parseFunc_instr ==
  /\ Stepping("parseFunc", "loop")
  /\ FuncLoopCase(current) \in {"plain", "folded"}
  /\ Call(IF FuncLoopCase(current) = "folded" THEN eatToken(Here) ELSE Here,
          [Top EXCEPT !.pc = FuncLoopCase(current)], ParseFuncInstrFrame)

parseFunc_push ==
  /\ Resuming("parseFunc")
  /\ Continue(IF Top.pc = "folded" THEN eatTokenOfType(Here, "closeParen") ELSE Here,
              [Top EXCEPT !.pc = "loop", !.fnBody = Append(@, ret)])

parseFunc_return ==
  /\ Stepping("parseFunc", "loop")
  /\ FuncLoopCase(current) \in {"done", "E"}
  /\ IF FuncLoopCase(current) = "E"
     THEN Commit(Throw([Here EXCEPT !.cur = IF Defined(current) THEN current + 1
                                            ELSE current], "TypeError"),
                 stack, Undefined, FALSE)
     ELSE Return(Here, func(Top.fnName,
                            IF Top.typeRef # Undefined THEN Top.typeRef
                            ELSE signature(Top.fnParams, Top.fnResult),
                            Top.fnBody))

(***************************************************************************)
(* The opcode signature table: the operand types of an opcode, or one type *)
(* marked vector (any number of operands); without an entry, two operand   *)
(* positions that give no type.                                            *)
(***************************************************************************)
SignatureOf(types) == [vector |-> FALSE, types |-> types]
VectorOf(type) == [vector |-> TRUE, types |-> <<type>>]

signatureForOpcode(object, name) ==
  LET opcodeName == IF object = "" THEN name ELSE object \o "." \o name
  IN CASE opcodeName = "nop" -> SignatureOf(<<>>)
       [] opcodeName = "get_local" -> SignatureOf(<<"u32">>)
       [] opcodeName = "br_table" -> VectorOf("u32")
       [] opcodeName = "i32.const" -> SignatureOf(<<"i32">>)
       [] opcodeName = "i32.add" -> SignatureOf(<<"i32", "i32">>)
       [] opcodeName = "i32.mul" -> SignatureOf(<<"i32", "i32">>)
       [] OTHER -> SignatureOf(<<"", "">>)

(***************************************************************************)
(* parseFuncInstr                                                          *)
(***************************************************************************)
\* The keywords after which parseFuncInstr returns what another parse
\* function returns.
TailCallKeywords == {"loop", "block", "if", "module", "call_indirect"}

\* What parseFuncInstr meets behind the comments: "plain", "tail", "call",
\* "reject"; "E" past the end.
FuncInstrCase(c) ==
  IF ~Defined(c) THEN "E"
  ELSE IF Tok(c).type \in {"name", "valtype"} THEN "plain"
  ELSE IF Tok(c).type = "keyword" /\ Tok(c).value \in TailCallKeywords THEN "tail"
  ELSE IF isKeyword(Tok(c), "call") THEN "call"
  ELSE "reject"

\* The head of a simple instruction: <name>, or <object> . <name>.
\* val = [name, object], object "" when there is none.
parseFuncInstr_opcode(p) ==
  LET first == Tok(p.cur).value
      p1 == eatToken(p)
  IN IF ~Defined(p1.cur) THEN Throw(p1, "TypeError")
     ELSE IF Tok(p1.cur).type # "dot" THEN Ret(p1, [name |-> first, object |-> JsUndef])
     ELSE LET p2 == eatToken(p1)
          IN IF ~Defined(p2.cur) THEN Throw(p2, "TypeError")
             ELSE IF Tok(p2.cur).type # "name" THEN Throw(p2, "Plain")
             ELSE LET p3 == eatToken(p2)
                  IN IF ~Defined(p3.cur) THEN Throw(p3, "TypeError")
                     ELSE Ret(p3, [name |-> Tok(p2.cur).value, object |-> JsStr(first)])

\* t.instruction(name, args, namedArgs) or
\* t.objectInstruction(name, object, args, namedArgs), with its location.
buildInstr(p, op, args, namedArgs) ==
  LET node == IF op.object = JsUndef THEN instruction(op.name, Arr(args), namedArgs)
              ELSE objectInstruction(op.name, op.object, Arr(args), namedArgs)
  IN IF node = AssertionError THEN Throw(p, "Assertion") ELSE Ret(p, withLoc(node))

\* A simple instruction: returned at once before `)`, else its arguments are
\* parsed with the signature of its opcode.
parseFuncInstr_plain ==
  /\ Stepping("parseFuncInstr", "start")
  /\ FuncInstrCase(maybeIgnoreComment(Here).cur) = "plain"
  /\ LET p == parseFuncInstr_opcode(maybeIgnoreComment(Here))
         b == buildInstr(p, p.val, <<>>, <<>>)
         sig == signatureForOpcode(IF p.val.object = JsUndef THEN "" ELSE p.val.object.s,
                                   p.val.name)
     IN IF Failed(p) THEN Commit(p, stack, Undefined, FALSE)
        ELSE IF Tok(p.cur).type = "closeParen" THEN Return(b, b.val)
        ELSE Call(Ret(p, Undefined), [Top EXCEPT !.pc = "args"] @@ [op |-> p.val],
                  [fn |-> "parseFuncInstrArguments", pc |-> "start", signature |-> sig])

\* The instruction is built from what parseFuncInstrArguments returned.
parseFuncInstr_build ==
  /\ Resuming("parseFuncInstr")
  /\ Top.pc = "args"
  /\ LET p == IF Defined(current) THEN buildInstr(Here, Top.op, ret.args, ret.namedArgs)
              ELSE Throw(Here, "TypeError")
     IN Return(p, p.val)

TailCallee(kw, c) ==
  CASE kw = "loop" -> [fn |-> "parseLoop", pc |-> "start"]
    [] kw = "block" -> [fn |-> "parseBlock", pc |-> "start"]
    [] kw = "if" -> [fn |-> "parseIf", pc |-> "start"]
    [] kw = "call_indirect" ->
         [fn |-> "parseCallIndirect", pc |-> "loop", typeRef |-> Undefined,
          params |-> <<>>, results |-> <<>>, instrs |-> <<>>]
    [] kw = "module" -> [fn |-> "parseModule", pc |-> "start", serial |-> c]

\* return parseLoop() / parseBlock() / parseCallIndirect() / parseIf() /
\* parseModule(): the callee's return value is parseFuncInstr's.
parseFuncInstr_keyword ==
  /\ Stepping("parseFuncInstr", "start")
  /\ FuncInstrCase(maybeIgnoreComment(Here).cur) = "tail"
  /\ LET p == maybeIgnoreComment(Here)
     IN Commit(eatToken(p), SetTop(TailCallee(Tok(p.cur).value, p.cur + 1)),
               Undefined, FALSE)

\* A token that starts no instruction; getStartLoc() and token.type past
\* the end.
parseFuncInstr_reject ==
  /\ Stepping("parseFuncInstr", "start")
  /\ FuncInstrCase(maybeIgnoreComment(Here).cur) \in {"reject", "E"}
  /\ Commit(createUnexpectedToken(maybeIgnoreComment(Here)), stack, Undefined, FALSE)

\* The index of a call instruction.
parseFuncInstr_call ==
  /\ Stepping("parseFuncInstr", "start")
  /\ FuncInstrCase(maybeIgnoreComment(Here).cur) = "call"
  /\ LET p == eatToken(maybeIgnoreComment(Here))
         index == IF TypeAt(p.cur) = "identifier" THEN identifierFromToken(Tok(p.cur))
                  ELSE IF TypeAt(p.cur) = "number"
                    THEN [type |-> "NumberLiteral", value |-> NumVal(Tok(p.cur).value),
                          raw |-> Tok(p.cur).value, numtype |-> "i32"]
                  ELSE Undefined
         p1 == IF ~Defined(p.cur) THEN Throw(p, "TypeError")
               ELSE IF index = Undefined THEN p ELSE eatToken(p)
     IN Continue(p1, [Top EXCEPT !.pc = "call"] @@ [index |-> index, instrArgs |-> <<>>])

\* while (token.type === openParen) instrArgs.push(parseFuncInstr())
parseFuncInstr_callArg ==
  /\ Stepping("parseFuncInstr", "call")
  /\ TypeAt(current) = "openParen"
  /\ Call(eatToken(Here), [Top EXCEPT !.pc = "callArg"], ParseFuncInstrFrame)

parseFuncInstr_callPush ==
  /\ Resuming("parseFuncInstr")
  /\ Top.pc = "callArg"
  /\ Continue(eatTokenOfType(Here, "closeParen"),
              [Top EXCEPT !.pc = "call", !.instrArgs = Append(@, ret)])

parseFuncInstr_callReturn ==
  /\ Stepping("parseFuncInstr", "call")
  /\ TypeAt(current) # "openParen"
  /\ LET p == IF ~Defined(current) THEN Throw(Here, "TypeError")
              ELSE IF Top.index = Undefined THEN Throw(Here, "Plain")
              ELSE Here
     IN Return(p, [type |-> "CallInstruction", index |-> Top.index,
                   instrArgs |-> Top.instrArgs])

(***************************************************************************)
(* parseFuncInstrArguments                                                 *)
(***************************************************************************)
\* namedArgs[key] = value on a JS object kept as a sequence of properties.
SetNamedArg(namedArgs, key, value) ==
  IF \E i \in 1..Len(namedArgs) : namedArgs[i].key = key
  THEN [i \in 1..Len(namedArgs) |->
          IF namedArgs[i].key = key THEN [key |-> key, value |-> value] ELSE namedArgs[i]]
  ELSE Append(namedArgs, [key |-> key, value |-> value])

\* The first loop: key = number, for as long as the token is a name or the
\* keyword offset.
RECURSIVE parseFuncInstrArguments_namedLoop(_, _)
parseFuncInstrArguments_namedLoop(p, namedArgs) ==
  IF Failed(p) THEN p
  ELSE IF ~Defined(p.cur) THEN Throw(p, "TypeError")
  ELSE IF ~(Tok(p.cur).type = "name" \/ isKeyword(Tok(p.cur), "offset"))
    THEN Ret(p, namedArgs)
  ELSE LET p1 == eatTokenOfType(eatToken(p), "equal")
       IN IF Failed(p1) THEN p1
          ELSE IF ~Defined(p1.cur) THEN Throw(p1, "TypeError")
          ELSE IF Tok(p1.cur).type # "number" THEN Throw(p1, "Plain")
          ELSE parseFuncInstrArguments_namedLoop(eatToken(p1),
                 SetNamedArg(namedArgs, Tok(p.cur).value,
                             numberLiteralFromRaw(Tok(p1.cur).value, "i32")))

parseFuncInstrArguments_named ==
  /\ Stepping("parseFuncInstrArguments", "start")
  /\ LET p == parseFuncInstrArguments_namedLoop(Here, <<>>)
     IN Continue(Ret(p, Undefined),
                 [Top EXCEPT !.pc = "args"] @@
                 [args |-> <<>>, namedArgs |-> p.val, signaturePtr |-> 0])

\* token.type !== closeParen &&
\*   (token.type === openParen || signaturePtr < signatureLength)
ArgsLoopGuard(f, c) ==
  /\ Tok(c).type # "closeParen"
  /\ IF Tok(c).type = "openParen" THEN TRUE
     ELSE IF f.signature.vector THEN TRUE
     ELSE f.signaturePtr < Len(f.signature.types)

\* Every operand typed f64, whatever the signature gives.
OperandType_Untyped(sig, ptr) == "f64"

\* signature[signaturePtr] || "f64"
OperandType(sig, ptr) ==
  IF ptr + 1 \in DOMAIN sig.types /\ sig.types[ptr + 1] # "" THEN sig.types[ptr + 1]
  ELSE "f64"

AtomArgTypes == {"identifier", "valtype", "string", "number"}

\* The operand pushed and its token left uneaten.
parseFuncInstrArguments_arg_NotEaten ==
  /\ Stepping("parseFuncInstrArguments", "args")
  /\ Defined(current)
  /\ ArgsLoopGuard(Top, current)
  /\ Tok(current).type # "openParen"
  /\ LET tk == Tok(current)
         node == CASE tk.type = "identifier" -> identifier(tk.value)
                   [] tk.type = "valtype" -> valtypeLiteral(tk.value)
                   [] tk.type = "string" -> stringLiteral(tk.value)
                   [] tk.type = "number" ->
                        numberLiteralFromRaw(tk.value,
                                             OperandType(Top.signature, Top.signaturePtr))
                   [] OTHER -> Undefined
         ptr == IF tk.type = "number" /\ ~Top.signature.vector
                THEN Top.signaturePtr + 1 ELSE Top.signaturePtr
     IN IF tk.type \in AtomArgTypes
        THEN Continue(Here,
                      [Top EXCEPT !.args = Append(@, node), !.signaturePtr = ptr])
        ELSE Commit(createUnexpectedToken(Here), stack, Undefined, FALSE)

\* One identifier, valtype, string or number operand, or a token that is no
\* operand.
parseFuncInstrArguments_arg ==
  /\ Stepping("parseFuncInstrArguments", "args")
  /\ Defined(current)
  /\ ArgsLoopGuard(Top, current)
  /\ Tok(current).type # "openParen"
  /\ LET tk == Tok(current)
         node == CASE tk.type = "identifier" -> identifier(tk.value)
                   [] tk.type = "valtype" -> valtypeLiteral(tk.value)
                   [] tk.type = "string" -> stringLiteral(tk.value)
                   [] tk.type = "number" ->
                        numberLiteralFromRaw(tk.value,
                                             OperandType(Top.signature, Top.signaturePtr))
                   [] OTHER -> Undefined
         ptr == IF tk.type = "number" /\ ~Top.signature.vector
                THEN Top.signaturePtr + 1 ELSE Top.signaturePtr
     IN IF tk.type \in AtomArgTypes
        THEN Continue(eatToken(Here),
                      [Top EXCEPT !.args = Append(@, node), !.signaturePtr = ptr])
        ELSE Commit(createUnexpectedToken(Here), stack, Undefined, FALSE)

\* A nested instruction in parentheses.
parseFuncInstrArguments_nested ==
  /\ Stepping("parseFuncInstrArguments", "args")
  /\ TypeAt(current) = "openParen"
  /\ LET p == eatToken(Here)
     IN IF InstrAhead(p.cur) = "instr"
        THEN Call(p, [Top EXCEPT !.pc = "nested"], ParseFuncInstrFrame)
        ELSE Commit(createUnexpectedToken(p), stack, Undefined, FALSE)

\* args.push(parseFuncInstr()); if (token.type === closeParen) eatToken()
parseFuncInstrArguments_push ==
  /\ Resuming("parseFuncInstrArguments")
  /\ LET p == IF ~Defined(current) THEN Throw(Here, "TypeError")
              ELSE IF Tok(current).type = "closeParen" THEN eatToken(Here)
              ELSE Here
     IN Continue(p, [Top EXCEPT !.pc = "args", !.args = Append(@, ret)])

parseFuncInstrArguments_return ==
  /\ Stepping("parseFuncInstrArguments", "args")
  /\ Defined(current) => ~ArgsLoopGuard(Top, current)
  /\ LET p == IF Defined(current) THEN Here ELSE Throw(Here, "TypeError")
     IN Return(p, [args |-> Top.args, namedArgs |-> Top.namedArgs])

(***************************************************************************)
(* parseBlock and parseLoop                                                *)
(***************************************************************************)
\* What the loop of parseBlock, parseLoop meets: "done" (no `(`), "result",
\* "instr", "reject"; "E" past the end.
BlockLoopCase(c) ==
  IF ~Defined(c) THEN "E"
  ELSE IF Tok(c).type # "openParen" THEN "done"
  ELSE IF ~Defined(c + 1) THEN "E"
  ELSE IF isKeyword(Tok(c + 1), "result") THEN "result"
  ELSE IF InstrAhead(c + 1) = "instr" THEN "instr"
  ELSE "reject"

\* ( result <token> ) of a block or loop; a token after `(` that no branch
\* takes; the end of the token list.
parseBlockResult(p, ignoreComments) ==
  LET kind == BlockLoopCase(p.cur)
      p2 == eatToken(eatToken(p))
      p3 == IF ignoreComments THEN maybeIgnoreComment(eatToken(p2)) ELSE eatToken(p2)
  IN IF kind = "E"
       THEN Throw(IF Defined(p.cur) THEN eatToken(p) ELSE p, "TypeError")
     ELSE IF kind = "reject" THEN createUnexpectedToken(eatToken(p))
     ELSE IF ~Defined(p2.cur) THEN Throw(p2, "TypeError")
     ELSE Ret(eatTokenOfType(p3, "closeParen"), JsStr(Tok(p2.cur).value))

parseBlock_start ==
  /\ Stepping("parseBlock", "start")
  /\ LET p == parseName(Here, "block")
     IN Continue(Ret(p, Undefined),
                 [Top EXCEPT !.pc = "loop"] @@
                 [label |-> p.val, blockResult |-> Null, instr |-> <<>>])

parseBlock_result ==
  /\ Stepping("parseBlock", "loop")
  /\ BlockLoopCase(current) \in {"result", "reject", "E"}
  /\ LET p == parseBlockResult(Here, TRUE)
     IN Continue(Ret(p, Undefined), [Top EXCEPT !.blockResult = p.val])

parseBlock_instr ==
  /\ Stepping("parseBlock", "loop")
  /\ BlockLoopCase(current) = "instr"
  /\ Call(eatToken(Here), Top, ParseFuncInstrFrame)

parseBlock_push ==
  /\ Resuming("parseBlock")
  /\ Continue(eatTokenOfType(maybeIgnoreComment(Here), "closeParen"),
              [Top EXCEPT !.instr = Append(@, ret)])

parseBlock_return ==
  /\ Stepping("parseBlock", "loop")
  /\ BlockLoopCase(current) = "done"
  /\ Return(Here, blockInstruction(Top.label, Top.instr, Top.blockResult))

parseLoop_start ==
  /\ Stepping("parseLoop", "start")
  /\ LET p == parseName(Here, "loop")
     IN Continue(Ret(p, Undefined),
                 [Top EXCEPT !.pc = "loop"] @@
                 [label |-> p.val, blockResult |-> JsUndef, instr |-> <<>>])

parseLoop_result ==
  /\ Stepping("parseLoop", "loop")
  /\ BlockLoopCase(current) \in {"result", "reject", "E"}
  /\ LET p == parseBlockResult(Here, FALSE)
     IN Continue(Ret(p, Undefined), [Top EXCEPT !.blockResult = p.val])

parseLoop_instr ==
  /\ Stepping("parseLoop", "loop")
  /\ BlockLoopCase(current) = "instr"
  /\ Call(eatToken(Here), Top, ParseFuncInstrFrame)

parseLoop_push ==
  /\ Resuming("parseLoop")
  /\ Continue(eatTokenOfType(Here, "closeParen"), [Top EXCEPT !.instr = Append(@, ret)])

parseLoop_return ==
  /\ Stepping("parseLoop", "loop")
  /\ BlockLoopCase(current) = "done"
  /\ Return(Here, loopInstruction(Top.label, Top.blockResult, Top.instr))

(***************************************************************************)
(* parseIf                                                                 *)
(***************************************************************************)
\* What the outer loop of parseIf meets: "done", "result", "then", "else",
\* "test", "reject"; "E" past the end.
IfLoopCase(c) ==
  IF ~Defined(c) THEN "E"
  ELSE IF Tok(c).type # "openParen" THEN "done"
  ELSE IF ~Defined(c + 1) THEN "E"
  ELSE IF isKeyword(Tok(c + 1), "result") THEN "result"
  ELSE IF isKeyword(Tok(c + 1), "then") THEN "then"
  ELSE IF isKeyword(Tok(c + 1), "else") THEN "else"
  ELSE IF InstrAhead(c + 1) = "instr" THEN "test"
  ELSE "reject"

parseIf_start ==
  /\ Stepping("parseIf", "start")
  /\ LET p == parseName(Here, "if")
     IN Continue(Ret(p, Undefined),
                 [Top EXCEPT !.pc = "loop"] @@
                 [label |-> p.val, blockResult |-> Null, testInstrs |-> <<>>,
                  consequent |-> <<>>, alternate |-> <<>>])

\* ( result <valtype> ), the opening of ( then or ( else, or a token after
\* `(` that no branch takes.
parseIf_clause ==
  /\ Stepping("parseIf", "loop")
  /\ IfLoopCase(current) \in {"result", "then", "else", "reject", "E"}
  /\ LET kind == IfLoopCase(current)
         p2 == eatToken(eatToken(Here))
     IN CASE kind = "result" ->
               IF Defined(p2.cur)
               THEN Continue(eatTokenOfType(eatTokenOfType(p2, "valtype"), "closeParen"),
                             [Top EXCEPT !.blockResult = JsStr(Tok(p2.cur).value)])
               ELSE Commit(Throw(p2, "TypeError"), stack, Undefined, FALSE)
          [] kind \in {"then", "else"} -> Continue(p2, [Top EXCEPT !.pc = kind])
          [] kind = "reject" ->
               Commit(createUnexpectedToken(eatToken(Here)), stack, Undefined, FALSE)
          [] kind = "E" ->
               Commit(Throw(IF Defined(current) THEN eatToken(Here) ELSE Here, "TypeError"),
                      stack, Undefined, FALSE)

\* testInstrs.push(parseFuncInstr())
parseIf_test ==
  /\ Stepping("parseIf", "loop")
  /\ IfLoopCase(current) = "test"
  /\ Call(eatToken(Here), [Top EXCEPT !.pc = "test"], ParseFuncInstrFrame)

\* One instruction of ( then ... ) or ( else ... ).
parseIf_body ==
  /\ status = "running" /\ stack # <<>> /\ ~returning
  /\ Top.fn = "parseIf" /\ Top.pc \in {"then", "else"}
  /\ TypeAt(current) = "openParen"
  /\ LET p == eatToken(Here)
     IN IF InstrAhead(p.cur) = "instr"
        THEN Call(p, [Top EXCEPT !.pc = IF Top.pc = "then" THEN "consequent"
                                        ELSE "alternate"], ParseFuncInstrFrame)
        ELSE Commit(createUnexpectedToken(p), stack, Undefined, FALSE)

\* The close-paren of ( then ... ) or ( else ... ).
parseIf_endBody ==
  /\ status = "running" /\ stack # <<>> /\ ~returning
  /\ Top.fn = "parseIf" /\ Top.pc \in {"then", "else"}
  /\ TypeAt(current) # "openParen"
  /\ Continue(eatTokenOfType(Here, "closeParen"), [Top EXCEPT !.pc = "loop"])

parseIf_push ==
  /\ Resuming("parseIf")
  /\ LET f == CASE Top.pc = "test" ->
                     [Top EXCEPT !.pc = "loop", !.testInstrs = Append(@, ret)]
                [] Top.pc = "consequent" ->
                     [Top EXCEPT !.pc = "then", !.consequent = Append(@, ret)]
                [] Top.pc = "alternate" ->
                     [Top EXCEPT !.pc = "else", !.alternate = Append(@, ret)]
     IN Continue(eatTokenOfType(Here, "closeParen"), f)

parseIf_return ==
  /\ Stepping("parseIf", "loop")
  /\ IfLoopCase(current) = "done"
  /\ Return(Here, ifInstruction(Top.label, Top.testInstrs, Top.blockResult,
                                Top.consequent, Top.alternate))

(***************************************************************************)
(* parseGlobal                                                             *)
(***************************************************************************)
\* ( export <string> ) of a global: buffers {exportType: "Global", name, id}
\* with the global's own name node as id.
parseGlobal_export(p, name) ==
  IF Failed(p) THEN p
  ELSE LET look == lookaheadAndCheck2(p.cur, "openParen", "export")
           p1 == eatToken(eatToken(p))
       IN IF look = "E" THEN Throw(p, "TypeError")
          ELSE IF look = "F" THEN p
          ELSE IF ~Defined(p1.cur) THEN Throw(p1, "TypeError")
          ELSE eatTokenOfType(
                 registerExport(eatTokenOfType(p1, "string"), "Global",
                                Tok(p1.cur).value, name),
                 "closeParen")

\* ( import <string> <string> ) of a global; val = the import, or Null.
parseGlobal_import(p) ==
  IF Failed(p) THEN p
  ELSE LET look == lookaheadAndCheck2(p.cur, "openParen", "import")
           p1 == eatToken(eatToken(p))
           p2 == eatTokenOfType(p1, "string")
           p3 == eatTokenOfType(p2, "string")
       IN IF look = "E" THEN Throw(p, "TypeError")
          ELSE IF look = "F" THEN Ret(p, Null)
          ELSE IF ~Defined(p1.cur) THEN Throw(p1, "TypeError")
          ELSE IF Failed(p2) THEN p2
          ELSE IF ~Defined(p2.cur) THEN Throw(p2, "TypeError")
          ELSE Ret(eatTokenOfType(p3, "closeParen"),
                   [module |-> Tok(p1.cur).value, name |-> Tok(p2.cur).value])

\* global_sig: <valtype> or ( mut <token> ).
parseGlobal_sig(p) ==
  IF Failed(p) THEN p
  ELSE IF ~Defined(p.cur) THEN Throw(p, "TypeError")
  ELSE IF Tok(p.cur).type = "valtype"
    THEN Ret(eatToken(p), globalType(Tok(p.cur).value, "const"))
  ELSE IF Tok(p.cur).type # "openParen" THEN createUnexpectedToken(p)
  ELSE LET p1 == eatToken(p)
           p2 == eatToken(p1)
       IN IF ~Defined(p1.cur) THEN Throw(p1, "TypeError")
          ELSE IF ~isKeyword(Tok(p1.cur), "mut") THEN createUnexpectedToken(p1)
          ELSE IF ~Defined(p2.cur) THEN Throw(p2, "TypeError")
          ELSE Ret(eatTokenOfType(eatToken(p2), "closeParen"),
                   globalType(Tok(p2.cur).value, "var"))

\* parseGlobal up to its instruction loop.
parseGlobal_start ==
  /\ Stepping("parseGlobal", "start")
  /\ LET p0 == parseName(maybeIgnoreComment(Here), "global")
         p1 == parseGlobal_import(parseGlobal_export(p0, p0.val))
         p2 == maybeIgnoreComment(parseGlobal_sig(p1))
         init == IF p1.val = Null THEN <<>>
                 ELSE <<moduleImport(p1.val.module, p1.val.name, p2.val)>>
     IN Continue(Ret(p2, Undefined),
                 [Top EXCEPT !.pc = "loop"] @@
                 [name |-> p0.val, gtype |-> p2.val, init |-> init])

\* while (token.type === openParen) init.push(parseFuncInstr())
parseGlobal_init ==
  /\ Stepping("parseGlobal", "loop")
  /\ TypeAt(current) = "openParen"
  /\ Call(eatToken(Here), Top, ParseFuncInstrFrame)

parseGlobal_push ==
  /\ Resuming("parseGlobal")
  /\ Continue(eatTokenOfType(Here, "closeParen"), [Top EXCEPT !.init = Append(@, ret)])

parseGlobal_return ==
  /\ Stepping("parseGlobal", "loop")
  /\ TypeAt(current) # "openParen"
  /\ LET p == IF Defined(current) THEN Here ELSE Throw(Here, "TypeError")
     IN Return(p, global(Top.gtype, Top.init, Top.name))

(***************************************************************************)
(* parseCallIndirect                                                       *)
(***************************************************************************)
CallIndirectKeywords == {"type", "param", "result"}

\* What the loop of parseCallIndirect meets: "done", "field", "instr"; "E"
\* past the end.
CallIndirectCase(c) ==
  IF ~Defined(c) THEN "E"
  ELSE IF Tok(c).type = "closeParen" THEN "done"
  ELSE IF Tok(c).type # "openParen" THEN "instr"
  ELSE IF ~Defined(c + 1) THEN "E"
  ELSE IF Tok(c + 1).type = "keyword" /\ Tok(c + 1).value \in CallIndirectKeywords
    THEN "field"
  ELSE "instr"

\* ( type <var> ), ( param ... ) or ( result ... ) of a call_indirect.
parseCallIndirect_field ==
  /\ Stepping("parseCallIndirect", "loop")
  /\ CallIndirectCase(current) = "field"
  /\ LET kw == Tok(current + 1).value
         p0 == eatToken(eatToken(Here))
         empty == TypeAt(p0.cur) = "closeParen"
         p == CASE kw = "type" -> parseTypeReference(p0)
                [] kw = "param" ->
                     IF ~Defined(p0.cur) THEN Throw(p0, "TypeError")
                     ELSE IF empty THEN Ret(p0, <<>>) ELSE parseFuncParam(p0)
                [] kw = "result" ->
                     IF ~Defined(p0.cur) THEN Throw(p0, "TypeError")
                     ELSE IF empty THEN Ret(p0, <<>>) ELSE parseFuncResult(p0)
         f == CASE kw = "type" -> [Top EXCEPT !.typeRef = p.val]
                [] kw = "param" -> [Top EXCEPT !.params = @ \o p.val]
                [] kw = "result" -> [Top EXCEPT !.results = @ \o p.val]
     IN Continue(Ret(eatTokenOfType(p, "closeParen"), Undefined), f)

\* eatTokenOfType(openParen); instrs.push(parseFuncInstr())
parseCallIndirect_instr ==
  /\ Stepping("parseCallIndirect", "loop")
  /\ CallIndirectCase(current) \in {"instr", "E"}
  /\ IF CallIndirectCase(current) = "E"
     THEN Commit(Throw(IF Defined(current) THEN eatToken(Here) ELSE Here, "TypeError"),
                 stack, Undefined, FALSE)
     ELSE Call(eatTokenOfType(Here, "openParen"), [Top EXCEPT !.pc = "instr"],
               ParseFuncInstrFrame)

parseCallIndirect_push ==
  /\ Resuming("parseCallIndirect")
  /\ Continue(eatTokenOfType(Here, "closeParen"),
              [Top EXCEPT !.pc = "loop", !.instrs = Append(@, ret)])

parseCallIndirect_return ==
  /\ Stepping("parseCallIndirect", "loop")
  /\ CallIndirectCase(current) = "done"
  /\ Return(Here, [type |-> "CallIndirectInstruction",
                   signature |-> IF Top.typeRef # Undefined THEN Top.typeRef
                                 ELSE signature(Top.params, Top.results),
                   instrArgs |-> Top.instrs])

(***************************************************************************)
(* parseElem                                                               *)
(***************************************************************************)
indexLiteral(raw) ==
  [type |-> "NumberLiteral", value |-> NumVal(raw), raw |-> raw, numtype |-> "i32"]

parseElem_start ==
  /\ Stepping("parseElem", "start")
  /\ LET p1 == IF TypeAt(current) = "identifier" THEN eatToken(Here) ELSE Here
         p2 == IF TypeAt(p1.cur) = "number" THEN eatToken(p1) ELSE p1
         tableIndex == IF TypeAt(p1.cur) = "number" THEN indexLiteral(Tok(p1.cur).value)
                       ELSE IF TypeAt(current) = "identifier"
                         THEN identifierFromToken(Tok(current))
                       ELSE [type |-> "NumberLiteral", value |-> 0, raw |-> "0",
                             numtype |-> "i32"]
         p == IF ~Defined(current) THEN Throw(Here, "TypeError")
              ELSE IF ~Defined(p1.cur) THEN Throw(p1, "TypeError")
              ELSE p2
     IN Continue(p, [Top EXCEPT !.pc = "loop"] @@
                    [tableIndex |-> tableIndex, offset |-> <<>>, funcs |-> <<>>])

\* What the loop of parseElem meets: "done", "offset", "var", "expr",
\* "reject"; "E" past the end.
ElemLoopCase(c) ==
  IF ~Defined(c) THEN "E"
  ELSE IF Tok(c).type = "closeParen" THEN "done"
  ELSE IF Tok(c).type \in {"identifier", "number"} THEN "var"
  ELSE IF Tok(c).type # "openParen" THEN "reject"
  ELSE IF ~Defined(c + 1) THEN "E"
  ELSE IF isKeyword(Tok(c + 1), "offset") THEN "offset"
  ELSE "expr"

\* A function index, the opening of ( offset, or a token parseElem rejects.
parseElem_item ==
  /\ Stepping("parseElem", "loop")
  /\ ElemLoopCase(current) \in {"var", "offset", "reject", "E"}
  /\ LET kind == ElemLoopCase(current)
     IN CASE kind = "var" ->
               Continue(eatToken(Here),
                        [Top EXCEPT !.funcs = Append(@,
                           IF Tok(current).type = "identifier"
                           THEN identifier(Tok(current).value)
                           ELSE indexLiteral(Tok(current).value))])
          [] kind = "offset" -> Continue(eatToken(eatToken(Here)), [Top EXCEPT !.pc = "offset"])
          [] kind = "reject" -> Commit(createUnexpectedToken(Here), stack, Undefined, FALSE)
          [] kind = "E" ->
               Commit(Throw(IF Defined(current) THEN eatToken(Here) ELSE Here, "TypeError"),
                      stack, Undefined, FALSE)

\* ( <instr> ) as the offset expression.
parseElem_expr ==
  /\ Stepping("parseElem", "loop")
  /\ ElemLoopCase(current) = "expr"
  /\ Call(eatToken(Here), [Top EXCEPT !.pc = "expr"], ParseFuncInstrFrame)

\* One instruction of ( offset ... ).
parseElem_offsetInstr ==
  /\ Stepping("parseElem", "offset")
  /\ TypeAt(current) # "closeParen"
  /\ Call(eatTokenOfType(Here, "openParen"), [Top EXCEPT !.pc = "offsetInstr"],
          ParseFuncInstrFrame)

\* The close-paren of ( offset ... ).
parseElem_offsetEnd ==
  /\ Stepping("parseElem", "offset")
  /\ TypeAt(current) = "closeParen"
  /\ Continue(eatTokenOfType(Here, "closeParen"), [Top EXCEPT !.pc = "loop"])

parseElem_push ==
  /\ Resuming("parseElem")
  /\ Continue(eatTokenOfType(Here, "closeParen"),
              [Top EXCEPT !.pc = IF Top.pc = "expr" THEN "loop" ELSE "offset",
                          !.offset = Append(@, ret)])

parseElem_return ==
  /\ Stepping("parseElem", "loop")
  /\ ElemLoopCase(current) = "done"
  /\ Return(Here, [type |-> "Elem", table |-> Top.tableIndex, offset |-> Top.offset,
                   funcs |-> Top.funcs])

(***************************************************************************)
(* Inputs: token lists of module fields, alone, in a module, in front of   *)
(* a module, and cut short.                                                *)
(***************************************************************************)
\* ( tokens )
Form(tokens) == <<LP>> \o tokens \o <<RP>>

RECURSIVE Flatten(_)
Flatten(seqs) == IF seqs = <<>> THEN <<>> ELSE Head(seqs) \o Flatten(Tail(seqs))

ModuleOf(fields) == Form(<<KW("module")>> \o Flatten(fields))

Export(name) == Form(<<KW("export"), STR(name)>>)
Nop == Form(<<NM("nop")>>)
I32Const(n) == Form(<<VT("i32"), DOT, NM("const"), NUM(n)>>)

Atoms == <<
  \* 1: (func)
  Form(<<KW("func")>>),
  \* 2: (func $f (export "a"))
  Form(<<KW("func"), ID("f")>> \o Export("a")),
  \* 3: (func (export "a") (export "b") (nop))
  Form(<<KW("func")>> \o Export("a") \o Export("b") \o Nop),
  \* 4: (func $f (param i32 i32) (param $x i32) (result i32) (type 0) (get_local 0))
  Form(<<KW("func"), ID("f")>> \o Form(<<KW("param"), VT("i32"), VT("i32")>>)
       \o Form(<<KW("param"), ID("x"), VT("i32")>>) \o Form(<<KW("result"), VT("i32")>>)
       \o Form(<<KW("type"), NUM("0")>>) \o Form(<<NM("get_local"), NUM("0")>>)),
  \* 5: (memory (export "m") 1)
  Form(<<KW("memory")>> \o Export("m") \o <<NUM("1")>>),
  \* 6: (memory $m 1 2)
  Form(<<KW("memory"), ID("m"), NUM("1"), NUM("2")>>),
  \* 7: (memory (data "\00"))
  Form(<<KW("memory")>> \o Form(<<KW("data"), STR("\\00")>>)),
  \* 8: (memory (data "hi"))
  Form(<<KW("memory")>> \o Form(<<KW("data"), STR("hi")>>)),
  \* 9: (table $t (export "t") 1 anyfunc)
  Form(<<KW("table"), ID("t")>> \o Export("t") \o <<NUM("1"), KW("anyfunc")>>),
  \* 10: (table 1)
  Form(<<KW("table"), NUM("1")>>),
  \* 11: (table anyfunc (elem $f))
  Form(<<KW("table"), KW("anyfunc")>> \o Form(<<KW("elem"), ID("f")>>)),
  \* 12: (global $g (export "g") i32 (i32.const 1))
  Form(<<KW("global"), ID("g")>> \o Export("g") \o <<VT("i32")>> \o I32Const("1")),
  \* 13: (global (export "g") (mut i32) (i32.const 0))
  Form(<<KW("global")>> \o Export("g") \o Form(<<KW("mut"), VT("i32")>>) \o I32Const("0")),
  \* 14: (global (import "a" "b") i32)
  Form(<<KW("global")>> \o Form(<<KW("import"), STR("a"), STR("b")>>) \o <<VT("i32")>>),
  \* 15: (export "e" (func $f))
  Form(<<KW("export"), STR("e")>> \o Form(<<KW("func"), ID("f")>>)),
  \* 16: (import "a" "b" (func $f (param i32)))
  Form(<<KW("import"), STR("a"), STR("b")>>
       \o Form(<<KW("func"), ID("f")>> \o Form(<<KW("param"), VT("i32")>>))),
  \* 17: (import 1)
  Form(<<KW("import"), NUM("1")>>),
  \* 18: (func (export "x") (foo (module (func)) (nop)))
  Form(<<KW("func")>> \o Export("x")
       \o Form(<<NM("foo")>> \o ModuleOf(<<Form(<<KW("func")>>)>>) \o Nop)),
  \* 19: (func nop nop)
  Form(<<KW("func"), NM("nop"), NM("nop")>>),
  \* 20: (func i32.add i32.mul)
  Form(<<KW("func"), VT("i32"), DOT, NM("add"), VT("i32"), DOT, NM("mul")>>),
  \* 21: (func nop i32.add)
  Form(<<KW("func"), NM("nop"), VT("i32"), DOT, NM("add")>>),
  \* 22: (func (i32.const 42) (foo 1 2) (br_table 0 1 2) (i32.add (i32.const 1) (nop)))
  Form(<<KW("func")>> \o I32Const("42") \o Form(<<NM("foo"), NUM("1"), NUM("2")>>)
       \o Form(<<NM("br_table"), NUM("0"), NUM("1"), NUM("2")>>)
       \o Form(<<VT("i32"), DOT, NM("add")>> \o I32Const("1") \o Nop)),
  \* 23: (func (i32.const 1 2))
  Form(<<KW("func")>> \o Form(<<VT("i32"), DOT, NM("const"), NUM("1"), NUM("2")>>)),
  \* 24: (func (block) (block $b (result i32) (loop (nop))) (loop $l (result i32)))
  Form(<<KW("func")>> \o Form(<<KW("block")>>)
       \o Form(<<KW("block"), ID("b")>> \o Form(<<KW("result"), VT("i32")>>)
               \o Form(<<KW("loop")>> \o Nop))
       \o Form(<<KW("loop"), ID("l")>> \o Form(<<KW("result"), VT("i32")>>))),
  \* 25: (func (if (result i32) (nop) (then (nop)) (else (nop))) (if $i))
  Form(<<KW("func")>>
       \o Form(<<KW("if")>> \o Form(<<KW("result"), VT("i32")>>) \o Nop
               \o Form(<<KW("then")>> \o Nop) \o Form(<<KW("else")>> \o Nop))
       \o Form(<<KW("if"), ID("i")>>)),
  \* 26: (func (i32.block))
  Form(<<KW("func")>> \o Form(<<VT("i32"), DOT, NM("block")>>)),
  \* 27: (func (i32.loop 1))
  Form(<<KW("func")>> \o Form(<<VT("i32"), DOT, NM("loop"), NUM("1")>>)),
  \* 28: (func (if)) with `if` tokenized as a name
  Form(<<KW("func")>> \o Form(<<NM("if")>>)),
  \* 29: (loop)
  Form(<<KW("loop")>>),
  \* 30: (block (nop))
  Form(<<KW("block")>> \o Nop),
  \* 31: (data (i32.const 0) "a")
  Form(<<KW("data")>> \o I32Const("0") \o <<STR("a")>>),
  \* 32: (data 0 (nop 0) "hi")
  Form(<<KW("data"), NUM("0")>> \o Form(<<NM("nop"), NUM("0")>>) \o <<STR("hi")>>),
  \* 33: (start $f)
  Form(<<KW("start"), ID("f")>>),
  \* 34: (start)
  Form(<<KW("start")>>),
  \* 35: (type $t (func (param i32) (result i32)))
  Form(<<KW("type"), ID("t")>>
       \o Form(<<KW("func")>> \o Form(<<KW("param"), VT("i32")>>)
               \o Form(<<KW("result"), VT("i32")>>))),
  \* 36: (elem $t (offset (nop)) $f 1 (nop))
  Form(<<KW("elem"), ID("t")>> \o Form(<<KW("offset")>> \o Nop)
       \o <<ID("f"), NUM("1")>> \o Nop),
  \* 37: (func (call $f (nop)) (call_indirect (type $t) (param i32) (result) (nop)))
  Form(<<KW("func")>> \o Form(<<KW("call"), ID("f")>> \o Nop)
       \o Form(<<KW("call_indirect")>> \o Form(<<KW("type"), ID("t")>>)
               \o Form(<<KW("param"), VT("i32")>>) \o Form(<<KW("result")>>) \o Nop)),
  \* 38: (nop)
  Nop,
  \* 39: a comment
  <<CMT("leading")>>,
  \* 40: (func (; c ;) (i32.load offset=1 align=2))
  Form(<<KW("func"), CMT("block")>>
       \o Form(<<VT("i32"), DOT, NM("load"), KW("offset"), EQ, NUM("1"),
                 NM("align"), EQ, NUM("2")>>)),
  \* 41: $x
  <<ID("x")>>,
  \* 42: (module (func (export "a")))
  ModuleOf(<<Form(<<KW("func")>> \o Export("a"))>>),
  \* 43: (export "e" (bogus $f))
  Form(<<KW("export"), STR("e")>> \o Form(<<NM("bogus"), ID("f")>>)),
  \* 44: (func (export 1))
  Form(<<KW("func")>> \o Form(<<KW("export"), NUM("1")>>)),
  \* 45: (func (1))
  Form(<<KW("func")>> \o Form(<<NUM("1")>>)),
  \* 46: (func $func_0)
  Form(<<KW("func"), ID("func_0")>>),
  \* 47: (func (call))
  Form(<<KW("func")>> \o Form(<<KW("call")>>)),
  \* 48: (data (get_global 0) "a")
  Form(<<KW("data")>> \o Form(<<NM("get_global"), NUM("0")>>) \o <<STR("a")>>),
  \* 49: (data (f32.const 0) "a")
  Form(<<KW("data")>> \o Form(<<VT("f32"), DOT, NM("const"), NUM("0")>>) \o <<STR("a")>>)
>>

\* The fields that follow another field in the inputs.
Followers == {Atoms[i] : i \in {1, 2, 10, 29, 42, 46}}

\* The most fields of a module in the inputs.
MaxFields == 2

RECURSIVE FieldLists(_)
FieldLists(n) ==
  IF n = 0 THEN {<<>>}
  ELSE IF n = 1 THEN {<<Atoms[i]>> : i \in DOMAIN Atoms}
  ELSE {Append(fs, f) : fs \in FieldLists(n - 1), f \in Followers}

Modules == UNION {{ModuleOf(fs) : fs \in FieldLists(n)} : n \in 0..MaxFields}

\* Modules of the other two kinds, and a named module.
OtherModules ==
  {Form(<<KW("module"), NM("binary"), STR("a"), CMT("block"), STR("b")>>),
   Form(<<KW("module"), ID("m"), NM("quote"), STR("a")>>),
   Form(<<KW("module"), ID("m")>> \o Atoms[1])}

\* A form in front of a module.
FormThenModule ==
  {Atoms[i] \o ModuleOf(<<f>>) : i \in DOMAIN Atoms, f \in Followers}

\* One-field modules cut short.
Truncated ==
  UNION {{SubSeq(ModuleOf(<<Atoms[i]>>), 1, n) : n \in 1..(Len(Atoms[i]) + 2)} :
         i \in DOMAIN Atoms}

\* One-field modules followed by one more close paren.
ExtraCloseParen == {ModuleOf(<<Atoms[i]>>) \o <<RP>> : i \in {1, 10}}

Inputs ==
  Modules \cup OtherModules \cup FormThenModule \cup Truncated \cup ExtraCloseParen
  \cup {Atoms[i] : i \in DOMAIN Atoms}

\* The state of parse at its first statement.
ParseEntry ==
  /\ current = 0
  /\ inc = [prefix \in UniquePrefixes |-> 0]
  /\ registredExportedElements = <<>>
  /\ stack = <<>>
  /\ ret = Undefined
  /\ returning = FALSE
  /\ body = <<>>
  /\ error = NoError
  /\ result = Undefined
  /\ regLog = <<>>
  /\ modLog = <<>>
  /\ iterationStart = <<NoIteration>>

NoAstCall == [builder |-> "none"]

Init ==
  /\ tokensList \in Inputs
  /\ status = "running"
  /\ ParseEntry
  /\ astCall = NoAstCall
  /\ astResult = Undefined
  /\ RuntimeIdle

Next ==
  \/ parse_walk \/ parse_push \/ parse_return
  \/ walk_leaf \/ walk_call \/ walk_return
  \/ parseModule_start \/ parseModule_walk \/ parseModule_push \/ parseModule_return
  \/ parseFunc_start \/ parseFunc_field \/ parseFunc_instr \/ parseFunc_push
  \/ parseFunc_return
  \/ parseFuncInstr_plain \/ parseFuncInstr_build \/ parseFuncInstr_keyword
  \/ parseFuncInstr_reject \/ parseFuncInstr_call \/ parseFuncInstr_callArg
  \/ parseFuncInstr_callPush \/ parseFuncInstr_callReturn
  \/ parseFuncInstrArguments_named \/ parseFuncInstrArguments_arg
  \/ parseFuncInstrArguments_nested \/ parseFuncInstrArguments_push
  \/ parseFuncInstrArguments_return
  \/ parseBlock_start \/ parseBlock_result \/ parseBlock_instr \/ parseBlock_push
  \/ parseBlock_return
  \/ parseLoop_start \/ parseLoop_result \/ parseLoop_instr \/ parseLoop_push
  \/ parseLoop_return
  \/ parseIf_start \/ parseIf_clause \/ parseIf_test \/ parseIf_body \/ parseIf_endBody
  \/ parseIf_push \/ parseIf_return
  \/ parseGlobal_start \/ parseGlobal_init \/ parseGlobal_push \/ parseGlobal_return
  \/ parseCallIndirect_field \/ parseCallIndirect_instr \/ parseCallIndirect_push
  \/ parseCallIndirect_return
  \/ parseElem_start \/ parseElem_item \/ parseElem_expr \/ parseElem_offsetInstr
  \/ parseElem_offsetEnd \/ parseElem_push \/ parseElem_return

Spec == Init /\ [][Next]_vars

(***************************************************************************)
(* The builders of compiler/AST/index.js that take a sequence, on any JS   *)
(* value: a failed assert() is the value AssertionError, the .length of    *)
(* null the value TypeError.                                               *)
(***************************************************************************)
TypeError == [type |-> "TypeError"]
JsNull == [js |-> "null", items |-> <<>>]

\* assert(typeof v === 'object' && typeof v.length !== 'undefined')
AssertSequence(v) ==
  IF v.js = "null" THEN TypeError
  ELSE IF isArrayLike(v) THEN JsUndef
  ELSE AssertionError

AST_module(id, fields) ==
  IF id.js \notin {"null", "undefined"} /\ id.js # "string" THEN AssertionError
  ELSE IF AssertSequence(fields) # JsUndef THEN AssertSequence(fields)
  ELSE [type |-> "Module", id |-> id, fields |-> fields]

AST_func(id, params, res, instrs) ==
  [type |-> "Func", id |-> id, params |-> params, result |-> res, body |-> instrs]

AST_loopInstruction(label, resulttype, instr) ==
  IF AssertSequence(instr) # JsUndef THEN AssertSequence(instr)
  ELSE [type |-> "LoopInstruction", id |-> "loop", label |-> label,
        resulttype |-> resulttype, instr |-> instr]

AST_blockInstruction(label, instr) ==
  IF label = JsUndef THEN AssertionError
  ELSE IF AssertSequence(instr) # JsUndef THEN AssertSequence(instr)
  ELSE [type |-> "BlockInstruction", id |-> "block", label |-> label, instr |-> instr]

AST_ifInstruction(test, res, consequent, alternate) ==
  [type |-> "IfInstruction", id |-> "if", test |-> test, result |-> res,
   consequent |-> consequent, alternate |-> alternate]

AST_funcImportDescr(value, params, results) ==
  IF AssertSequence(DefaultArray(params)) # JsUndef
    THEN AssertSequence(DefaultArray(params))
  ELSE IF AssertSequence(DefaultArray(results)) # JsUndef
    THEN AssertSequence(DefaultArray(results))
  ELSE [type |-> "FuncImportDescr", value |-> value, params |-> DefaultArray(params),
        results |-> DefaultArray(results)]

AST_brTableInstruction(labels, label) ==
  [type |-> "BrTableInstruction", id |-> "br_table", labels |-> labels, label |-> label]

(***************************************************************************)
(* The AST builders called directly: each call is drawn from the builders' *)
(* argument values and applied once.                                       *)
(***************************************************************************)
AstIds == {"block", "if", "loop", "nop", "const", "add", "get_local"}
AstObjects == {JsStr("i32"), JsStr("f64"), [js |-> "undefined", s |-> ""],
               [js |-> "number", s |-> ""]}
AstArgs ==
  NonArrays \cup {NoArgument, Arr(<<>>), Arr(<<numberLiteralFromRaw("1", "i32")>>)}

\* What a sequence parameter is called with.
AstSequences == AstArgs \cup {JsNull}
AstModuleIds == {JsStr("m"), [js |-> "null", s |-> ""], [js |-> "number", s |-> ""]}
AstLabels == {JsUndef, identifier("l")}

AstCalls ==
  {[builder |-> "instruction", id |-> id, object |-> [js |-> "undefined", s |-> ""],
    args |-> args] : id \in AstIds, args \in AstArgs}
  \cup {[builder |-> "objectInstruction", id |-> id, object |-> object, args |-> args] :
          id \in AstIds, object \in AstObjects, args \in AstArgs}
  \cup {[builder |-> "module", id |-> id, fields |-> fields] :
          id \in AstModuleIds, fields \in AstSequences}
  \cup {[builder |-> "func", params |-> params, body |-> instrs] :
          params \in AstSequences, instrs \in AstSequences}
  \cup {[builder |-> "loopInstruction", instr |-> instr] : instr \in AstSequences}
  \cup {[builder |-> "blockInstruction", label |-> label, instr |-> instr] :
          label \in AstLabels, instr \in AstSequences}
  \cup {[builder |-> "ifInstruction", consequent |-> consequent, alternate |-> alternate] :
          consequent \in AstSequences, alternate \in AstSequences}
  \cup {[builder |-> "funcImportDescr", params |-> params, results |-> results] :
          params \in AstSequences, results \in AstSequences}
  \cup {[builder |-> "brTableInstruction", labels |-> labels] : labels \in AstSequences}

InitAst ==
  /\ tokensList = <<>>
  /\ status = "idle"
  /\ ParseEntry
  /\ astCall \in AstCalls
  /\ astResult = Undefined
  /\ RuntimeIdle

call_instruction ==
  /\ astCall.builder = "instruction"
  /\ astResult = Undefined
  /\ astResult' = instruction(astCall.id, astCall.args, <<>>)
  /\ UNCHANGED <<tokensList, current, inc, registredExportedElements, stack, ret,
                 returning, body, status, error, result, regLog, modLog, iterationStart,
                 astCall, runtimeVars>>

call_objectInstruction ==
  /\ astCall.builder = "objectInstruction"
  /\ astResult = Undefined
  /\ astResult' = objectInstruction(astCall.id, astCall.object, astCall.args, <<>>)
  /\ UNCHANGED <<tokensList, current, inc, registredExportedElements, stack, ret,
                 returning, body, status, error, result, regLog, modLog, iterationStart,
                 astCall, runtimeVars>>

\* The call of a builder: astResult is what it returns or throws.
Called(returned) ==
  /\ astResult = Undefined
  /\ astResult' = returned
  /\ UNCHANGED <<parserVars, astCall, runtimeVars>>

call_module ==
  /\ astCall.builder = "module"
  /\ Called(AST_module(astCall.id, astCall.fields))

call_func ==
  /\ astCall.builder = "func"
  /\ Called(AST_func(identifier("f"), astCall.params, Null, astCall.body))

call_loopInstruction ==
  /\ astCall.builder = "loopInstruction"
  /\ Called(AST_loopInstruction(identifier("l"), Null, astCall.instr))

call_blockInstruction ==
  /\ astCall.builder = "blockInstruction"
  /\ Called(AST_blockInstruction(astCall.label, astCall.instr))

call_ifInstruction ==
  /\ astCall.builder = "ifInstruction"
  /\ Called(AST_ifInstruction(identifier("t"), Null, astCall.consequent,
                              astCall.alternate))

call_funcImportDescr ==
  /\ astCall.builder = "funcImportDescr"
  /\ Called(AST_funcImportDescr(identifier("f"), astCall.params, astCall.results))

call_brTableInstruction ==
  /\ astCall.builder = "brTableInstruction"
  /\ Called(AST_brTableInstruction(astCall.labels, identifier("l")))

NextAst ==
  \/ call_instruction \/ call_objectInstruction
  \/ call_module \/ call_func \/ call_loopInstruction \/ call_blockInstruction
  \/ call_ifInstruction \/ call_funcImportDescr \/ call_brTableInstruction

SpecAst == InitAst /\ [][NextAst]_vars

(***************************************************************************)
(* JS numbers of the interpreter.  An integer-valued or fractional number  *)
(* is kept by its floor in four limbs of 16 bits,                          *)
(*   floor(x) = top * 2^48 + l2 * 2^32 + l1 * 2^16 + l0,                   *)
(* with top any integer and 0 <= l2, l1, l0 < 2^16, and by frac, TRUE when *)
(* x has a fractional part.  A wrap modulo 2^32 or 2^64 is then a matter   *)
(* of limbs and stays inside the integers TLC computes with.               *)
(***************************************************************************)
Limb == 2^16

JsNumber(top, l2, l1, l0, frac) ==
  [top |-> top, l2 |-> l2, l1 |-> l1, l0 |-> l0, frac |-> frac]

\* The JS number of a small integer n.
FromInt(n) ==
  LET c1 == n \div Limb
      c2 == c1 \div Limb
  IN JsNumber(c2 \div Limb, c2 % Limb, c1 % Limb, n % Limb, FALSE)

\* The floor of a JS number whose floor is small.
ToInt(x) == ((x.top * Limb + x.l2) * Limb + x.l1) * Limb + x.l0

\* The quotient a / b of two small integers, b # 0, as a JS number.
Quotient(a, b) ==
  [FromInt(IF b > 0 THEN a \div b ELSE (-a) \div (-b)) EXCEPT !.frac = (a % (IF b > 0 THEN b ELSE -b) # 0)]

(***************************************************************************)
(* Floating-point numbers: NaN, the infinities, and the rationals n / d    *)
(* with a sign, so that -0 and +0 differ.                                  *)
(***************************************************************************)
NaN == [f |-> "nan", neg |-> FALSE, n |-> 0, d |-> 1]
Infinity(neg) == [f |-> "inf", neg |-> neg, n |-> 0, d |-> 1]

RECURSIVE Gcd(_, _)
Gcd(a, b) == IF b = 0 THEN a ELSE Gcd(b, a % b)

Abs(n) == IF n < 0 THEN -n ELSE n

\* The float sn / d for a signed numerator sn and d > 0; a zero takes the
\* sign negZero.
Fin(sn, d, negZero) ==
  IF sn = 0 THEN [f |-> "fin", neg |-> negZero, n |-> 0, d |-> 1]
  ELSE LET g == Gcd(Abs(sn), d)
       IN [f |-> "fin", neg |-> sn < 0, n |-> Abs(sn) \div g, d |-> d \div g]

Float(n) == Fin(n, 1, FALSE)
NegZero == Fin(0, 1, TRUE)

IsZero(a) == a.f = "fin" /\ a.n = 0
Signed(a) == IF a.neg THEN -a.n ELSE a.n
Negate(a) == IF a.f = "nan" THEN a ELSE [a EXCEPT !.neg = ~a.neg]

\* a < b for two numbers that are not NaN; -0 and +0 are equal here.
FloatLess(a, b) ==
  IF a.f = "inf" THEN a.neg /\ ~(b.f = "inf" /\ b.neg)
  ELSE IF b.f = "inf" THEN ~b.neg
  ELSE Signed(a) * b.d < Signed(b) * a.d

\* IEEE-754 a + b.
FloatAdd(a, b) ==
  IF a.f = "nan" \/ b.f = "nan" THEN NaN
  ELSE IF a.f = "inf"
    THEN (IF b.f = "inf" /\ b.neg # a.neg THEN NaN ELSE a)
  ELSE IF b.f = "inf" THEN b
  ELSE Fin(Signed(a) * b.d + Signed(b) * a.d, a.d * b.d,
           IsZero(a) /\ IsZero(b) /\ a.neg /\ b.neg)

FloatSub(a, b) == FloatAdd(a, Negate(b))

\* IEEE-754 a * b.
FloatMul(a, b) ==
  IF a.f = "nan" \/ b.f = "nan" THEN NaN
  ELSE IF a.f = "inf" \/ b.f = "inf"
    THEN (IF IsZero(a) \/ IsZero(b) THEN NaN ELSE Infinity(a.neg # b.neg))
  ELSE Fin(Signed(a) * Signed(b), a.d * b.d, a.neg # b.neg)

\* IEEE-754 a / b.
FloatDiv(a, b) ==
  IF a.f = "nan" \/ b.f = "nan" THEN NaN
  ELSE IF a.f = "inf"
    THEN (IF b.f = "inf" THEN NaN ELSE Infinity(a.neg # b.neg))
  ELSE IF b.f = "inf" THEN Fin(0, 1, a.neg # b.neg)
  ELSE IF IsZero(b)
    THEN (IF IsZero(a) THEN NaN ELSE Infinity(a.neg # b.neg))
  ELSE Fin((IF a.neg # b.neg THEN -1 ELSE 1) * a.n * b.d, a.d * b.n, a.neg # b.neg)

\* Math.min and Math.max: NaN when an operand is NaN, and -0 below +0.
FloatMin(a, b) ==
  IF a.f = "nan" \/ b.f = "nan" THEN NaN
  ELSE IF FloatLess(a, b) THEN a
  ELSE IF FloatLess(b, a) THEN b
  ELSE IF a.neg THEN a ELSE b

FloatMax(a, b) ==
  IF a.f = "nan" \/ b.f = "nan" THEN NaN
  ELSE IF FloatLess(a, b) THEN b
  ELSE IF FloatLess(b, a) THEN a
  ELSE IF a.neg THEN b ELSE a

\* The magnitude of a with the sign of b.
FloatCopysign(a, b) == IF a.f = "nan" THEN a ELSE [a EXCEPT !.neg = b.neg]

(***************************************************************************)
(* Runtime values: {type, value}, and the trap sentinel.                   *)
(***************************************************************************)
Trap == [type |-> "Trap"]

\* Math.floor(x).
MathFloor(x) == [x EXCEPT !.frac = FALSE]

\* n % 2^32 as JS computes it on an integer n: the remainder has the sign of n
\* and a magnitude below 2^32.
Remainder32(n) ==
  IF n.top < 0 /\ (n.l1 # 0 \/ n.l0 # 0) THEN JsNumber(-1, Limb - 1, n.l1, n.l0, FALSE)
  ELSE JsNumber(0, 0, n.l1, n.l0, FALSE)

\* n + 2^32 on an integer n.
Plus32(n) ==
  IF n.l2 + 1 = Limb THEN JsNumber(n.top + 1, 0, n.l1, n.l0, FALSE)
  ELSE JsNumber(n.top, n.l2 + 1, n.l1, n.l0, FALSE)

\* i32.createValue with one remainder only: a negative x stays negative.
i32_createValue_OneRemainder(x) == [type |-> "i32", value |-> Remainder32(MathFloor(x))]

\* i32.createValue: ((Math.floor(x) % 2^32) + 2^32) % 2^32.
i32_createValue(x) ==
  [type |-> "i32", value |-> Remainder32(Plus32(Remainder32(MathFloor(x))))]

\* i64.createValue: the floor of x modulo 2^64.
i64_createValue(x) ==
  [type |-> "i64", value |-> JsNumber(x.top % Limb, x.l2, x.l1, x.l0, FALSE)]

f32_createValue(x) == [type |-> "f32", value |-> x]
f64_createValue(x) == [type |-> "f64", value |-> x]

\* a sign b on the integers a and b: a JS number, or the trap of a division
\* by zero.
IntegerBinop(a, b, sign) ==
  CASE sign = "+" -> FromInt(a + b)
    [] sign = "-" -> FromInt(a - b)
    [] sign = "*" -> FromInt(a * b)
    [] sign = "/" -> IF b = 0 THEN Trap ELSE Quotient(a, b)

FloatBinop(a, b, sign) ==
  CASE sign = "+" -> FloatAdd(a, b)
    [] sign = "-" -> FloatSub(a, b)
    [] sign = "*" -> FloatMul(a, b)
    [] sign = "/" -> FloatDiv(a, b)
    [] sign = "min" -> FloatMin(a, b)
    [] sign = "max" -> FloatMax(a, b)
    [] sign = "copysign" -> FloatCopysign(a, b)

binopi32(c1, c2, sign) ==
  LET r == IntegerBinop(ToInt(c1.value), ToInt(c2.value), sign)
  IN IF r = Trap THEN Trap ELSE i32_createValue(r)

binopi64(c1, c2, sign) ==
  LET r == IntegerBinop(ToInt(c1.value), ToInt(c2.value), sign)
  IN IF r = Trap THEN Trap ELSE i64_createValue(r)

binopf32(c1, c2, sign) == f32_createValue(FloatBinop(c1.value, c2.value, sign))
binopf64(c1, c2, sign) == f64_createValue(FloatBinop(c1.value, c2.value, sign))

IntegerTypes == {"i32", "i64"}
FloatTypes == {"f32", "f64"}

\* castIntoStackLocalOfType: the createValue of the type on a small integer.
castIntoStackLocalOfType(type, n) ==
  CASE type = "i32" -> i32_createValue(FromInt(n))
    [] type = "i64" -> i64_createValue(FromInt(n))
    [] type = "f32" -> f32_createValue(Float(n))
    [] type = "f64" -> f64_createValue(Float(n))

(***************************************************************************)
(* Stack frames and the protocol the kernel gives the instructions.  An    *)
(* operation on a frame yields the frame after it, the error it threw and  *)
(* the value it returned.                                                  *)
(***************************************************************************)
numberLiteral(value) == [type |-> "NumberLiteral", value |-> value]

createStackFrame(code, locals) ==
  [code |-> code, pc |-> 1, locals |-> locals, values |-> <<>>, trapped |-> FALSE]

\* The frame of a child: its own code, the locals of its parent.
createChildStackFrame(parent, code) == createStackFrame(code, parent.locals)

Done(f, v) == [f |-> f, err |-> "none", val |-> v]
Raise(f, kind) == [f |-> f, err |-> kind, val |-> JsUndef]
Raised(o) == o.err # "none"

isTrapped(v) == v = Trap

pop1(f) ==
  IF Len(f.values) < 1 THEN Raise(f, "AssertionError")
  ELSE Done([f EXCEPT !.values = SubSeq(@, 1, Len(@) - 1)], f.values[Len(f.values)])

\* c2 is popped first, then c1; both are checked against the types asked for.
pop2(f, type1, type2) ==
  IF Len(f.values) < 2 THEN Raise(f, "AssertionError")
  ELSE LET c2 == f.values[Len(f.values)]
           c1 == f.values[Len(f.values) - 1]
       IN IF c1.type # type1 \/ c2.type # type2 THEN Raise(f, "AssertionError")
          ELSE Done([f EXCEPT !.values = SubSeq(@, 1, Len(@) - 2)], <<c1, c2>>)

\* A trap is carried on the frame; any other value goes on the value stack.
pushResult(f, v) ==
  IF isTrapped(v) THEN [f EXCEPT !.trapped = TRUE]
  ELSE [f EXCEPT !.values = Append(@, v)]

getLocalByIndex(f, index) ==
  IF index + 1 \notin DOMAIN f.locals THEN Raise(f, "AssertionError")
  ELSE Done(pushResult(f, f.locals[index + 1]), JsUndef)

\* locals[index.value] = value: an index past the end leaves holes before it,
\* a key that is no number leaves the elements as they are.
setLocalByIndex(f, index, value) ==
  IF index.type # "NumberLiteral" THEN f
  ELSE [f EXCEPT !.locals =
          [i \in 1..(IF index.value + 1 > Len(@) THEN index.value + 1 ELSE Len(@)) |->
             IF i = index.value + 1 THEN value
             ELSE IF i \in DOMAIN @ THEN @[i] ELSE JsUndef]]

\* What executeStackFrame returns for a frame that has stopped: the trap it
\* carries, else the value on top of its stack, else nothing.
FrameResult(f) ==
  IF f.trapped THEN Trap
  ELSE IF f.values # <<>> THEN f.values[Len(f.values)]
  ELSE JsUndef

\* instruction.args[i], undefined past the end.
Arg(instr, i) == IF i + 1 \in DOMAIN instr.args THEN instr.args[i + 1] ELSE JsUndef

\* instruction.object, "" when the instruction has none.
ObjectOf(instr) == IF "object" \in DOMAIN instr THEN instr.object ELSE ""

\* typeof init !== 'undefined' && init.type === 'Instr'
HasInit(instr) == Arg(instr, 1) # JsUndef /\ Arg(instr, 1).type = "Instr"

(***************************************************************************)
(* The instructions of kernel/exec: each takes the instruction and the     *)
(* frame it runs in, and yields the frame after it, the error it threw and *)
(* the value it returned.  set_local and tee_local also take res, the      *)
(* value createAndExecuteChildStackFrame returned for their init.          *)
(***************************************************************************)
\* get_local reading the first local whatever its index.
get_local_FirstLocal(instr, f) ==
  LET index == Arg(instr, 0)
  IN IF index = JsUndef THEN Raise(f, "RuntimeError")
     ELSE IF index.type = "NumberLiteral" THEN getLocalByIndex(f, 0)
     ELSE Raise(f, "RuntimeError")

get_local(instr, f) ==
  LET index == Arg(instr, 0)
  IN IF index = JsUndef THEN Raise(f, "RuntimeError")
     ELSE IF index.type = "NumberLiteral" THEN getLocalByIndex(f, index.value)
     ELSE Raise(f, "RuntimeError")

\* set_local reading the top of the stack and leaving it there.
set_local_NoPop(instr, f, res) ==
  LET index == Arg(instr, 0)
  IN IF HasInit(instr)
       THEN (IF isTrapped(res) THEN Done(f, res)
             ELSE Done(setLocalByIndex(f, index, res), JsUndef))
     ELSE IF index = JsUndef THEN Raise(f, "TypeError")
     ELSE IF index.type = "NumberLiteral"
       THEN LET val == pop1(f)
            IN IF Raised(val) THEN val
               ELSE Done(setLocalByIndex(f, index, val.val), JsUndef)
     ELSE Raise(f, "RuntimeError")

\* set_local assigning the result of its init before it looks for a trap.
set_local_AssignFirst(instr, f, res) ==
  LET index == Arg(instr, 0)
  IN IF HasInit(instr)
       THEN (IF isTrapped(res) THEN Done(setLocalByIndex(f, index, res), res)
             ELSE Done(setLocalByIndex(f, index, res), JsUndef))
     ELSE IF index = JsUndef THEN Raise(f, "TypeError")
     ELSE IF index.type = "NumberLiteral"
       THEN LET val == pop1(f)
            IN IF Raised(val) THEN val
               ELSE Done(setLocalByIndex(val.f, index, val.val), JsUndef)
     ELSE Raise(f, "RuntimeError")

set_local(instr, f, res) ==
  LET index == Arg(instr, 0)
  IN IF HasInit(instr)
       THEN (IF isTrapped(res) THEN Done(f, res)
             ELSE Done(setLocalByIndex(f, index, res), JsUndef))
     \* index.type of an index that is undefined
     ELSE IF index = JsUndef THEN Raise(f, "TypeError")
     ELSE IF index.type = "NumberLiteral"
       THEN LET val == pop1(f)
            IN IF Raised(val) THEN val
               ELSE Done(setLocalByIndex(val.f, index, val.val), JsUndef)
     ELSE Raise(f, "RuntimeError")

\* tee_local pushing the value once before the set_local in it pops it.
tee_local_PushesOnce(instr, f, res) ==
  LET index == Arg(instr, 0)
  IN IF HasInit(instr)
       THEN (IF isTrapped(res) THEN Done(f, res)
             ELSE Done(setLocalByIndex(f, index, res), JsUndef))
     ELSE IF index = JsUndef THEN Raise(f, "TypeError")
     ELSE IF index.type = "NumberLiteral"
       THEN LET val == pop1(f)
            IN IF Raised(val) THEN val
               ELSE LET val2 == pop1(pushResult(val.f, val.val))
                    IN IF Raised(val2) THEN val2
                       ELSE Done(setLocalByIndex(val2.f, index, val2.val), JsUndef)
     ELSE Raise(f, "RuntimeError")

tee_local(instr, f, res) ==
  LET index == Arg(instr, 0)
  IN IF HasInit(instr)
       THEN (IF isTrapped(res) THEN Done(f, res)
             ELSE Done(pushResult(setLocalByIndex(f, index, res), res), JsUndef))
     ELSE IF index = JsUndef THEN Raise(f, "TypeError")
     ELSE IF index.type = "NumberLiteral"
       THEN LET val == pop1(f)
            IN IF Raised(val) THEN val
               ELSE LET val2 == pop1(pushResult(pushResult(val.f, val.val), val.val))
                    IN IF Raised(val2) THEN val2
                       ELSE Done(setLocalByIndex(val2.f, index, val2.val), JsUndef)
     ELSE Raise(f, "RuntimeError")

const(instr, f) ==
  LET n == Arg(instr, 0)
  IN IF n = JsUndef THEN Raise(f, "RuntimeError")
     ELSE IF n.type # "NumberLiteral" THEN Raise(f, "RuntimeError")
     ELSE Done(pushResult(f, castIntoStackLocalOfType(ObjectOf(instr), n.value)),
               JsUndef)

\* The binop of the type object on x and y.
BinopOf(object, x, y, sign) ==
  CASE object = "i32" -> binopi32(x, y, sign)
    [] object = "i64" -> binopi64(x, y, sign)
    [] object = "f32" -> binopf32(x, y, sign)
    [] object = "f64" -> binopf64(x, y, sign)

\* The switch pushing the result on top of the operands.
SwitchObject_KeepsOperands(instr, f, objects, sign) ==
  LET object == ObjectOf(instr)
  IN IF object \notin objects THEN Raise(f, "RuntimeError")
     ELSE LET c == pop2(f, object, object)
          IN IF Raised(c) THEN c
             ELSE Done(pushResult(f, BinopOf(object, c.val[2], c.val[1], sign)), JsUndef)

\* The switch popping its operands before it looks at the object.
SwitchObject_PopsFirst(instr, f, objects, sign) ==
  LET object == ObjectOf(instr)
      c == pop2(f, object, object)
  IN IF Raised(c) THEN c
     ELSE IF object \notin objects THEN Raise(c.f, "RuntimeError")
     ELSE Done(pushResult(c.f, BinopOf(object, c.val[2], c.val[1], sign)), JsUndef)

\* One case of the switch on instr.object:
\*   const [c1, c2] = this.pop2(T, T); this.pushResult(binopT(c2, c1, sign))
\* and the default case for an object outside objects.
SwitchObject(instr, f, objects, sign) ==
  LET object == ObjectOf(instr)
  IN IF object \notin objects THEN Raise(f, "RuntimeError")
     ELSE LET c == pop2(f, object, object)
          IN IF Raised(c) THEN c
             ELSE Done(pushResult(c.f, BinopOf(object, c.val[2], c.val[1], sign)), JsUndef)

add(instr, f) == SwitchObject(instr, f, IntegerTypes \cup FloatTypes, "+")
mul(instr, f) == SwitchObject(instr, f, IntegerTypes \cup FloatTypes, "*")
sub(instr, f) == SwitchObject(instr, f, IntegerTypes \cup FloatTypes, "-")

\* div multiplying its operands.
div_Multiplies(instr, f) == SwitchObject(instr, f, IntegerTypes \cup FloatTypes, "*")

\* div handing binop its operands in the order they were pushed.
div_PushedOrder(instr, f) ==
  LET object == ObjectOf(instr)
  IN IF object \notin IntegerTypes \cup FloatTypes THEN Raise(f, "RuntimeError")
     ELSE LET c == pop2(f, object, object)
          IN IF Raised(c) THEN c
             ELSE Done(pushResult(c.f, BinopOf(object, c.val[1], c.val[2], "/")), JsUndef)

div(instr, f) == SwitchObject(instr, f, IntegerTypes \cup FloatTypes, "/")
div_s(instr, f) == div(instr, f)
div_u(instr, f) == div(instr, f)

\* min computing the larger operand.
min_Larger(instr, f) == SwitchObject(instr, f, FloatTypes, "max")

min(instr, f) == SwitchObject(instr, f, FloatTypes, "min")
max(instr, f) == SwitchObject(instr, f, FloatTypes, "max")
copysign(instr, f) == SwitchObject(instr, f, FloatTypes, "copysign")

\* A number that is an argument as it stands, not in a NumberLiteral.
JsNum(n) == [js |-> "number", n |-> n]

\* globaladdrs[index]: a number is a place in the array; a node or undefined
\* is turned into a property name, which no array element has.
GlobalAddrOf(originatingModule, index) ==
  IF "js" \in DOMAIN index /\ index.js = "number"
       /\ index.n + 1 \in DOMAIN originatingModule.globaladdrs
    THEN originatingModule.globaladdrs[index.n + 1]
  ELSE JsUndef

\* allocator.get(addr): the instance at the address, undefined when none is.
AllocatorGet(store, addr) ==
  IF addr.index \in DOMAIN store THEN store[addr.index] ELSE JsUndef

\* allocator.set(addr, instance).
AllocatorSet(store, addr, inst) == [store EXCEPT ![addr.index] = inst]

\* What set_global and get_global yield: as Done and Raise, with the allocator.
DoneStore(f, v, store) == [f |-> f, err |-> "none", val |-> v, store |-> store]
Stored(o, store) == [f |-> o.f, err |-> o.err, val |-> o.val, store |-> store]

set_global(instr, f, originatingModule, store) ==
  LET index == Arg(instr, 0)
      globaladdr == GlobalAddrOf(originatingModule, index)
  IN IF globaladdr = JsUndef THEN Stored(Raise(f, "RuntimeError"), store)
     ELSE LET globalinst == AllocatorGet(store, globaladdr)
          IN IF globalinst = JsUndef THEN Stored(Raise(f, "RuntimeError"), store)
             ELSE LET val == pop1(f)
                  IN IF Raised(val) THEN Stored(val, store)
                     ELSE DoneStore(val.f, JsUndef,
                            AllocatorSet(store, globaladdr,
                                         [globalinst EXCEPT !.value = val.val.value]))

get_global(instr, f, originatingModule, store) ==
  LET index == Arg(instr, 0)
      globaladdr == GlobalAddrOf(originatingModule, index)
  IN IF globaladdr = JsUndef THEN Stored(Raise(f, "RuntimeError"), store)
     ELSE LET globalinst == AllocatorGet(store, globaladdr)
          IN IF globalinst = JsUndef THEN Stored(Raise(f, "RuntimeError"), store)
             ELSE DoneStore(pushResult(f, globalinst), JsUndef, store)

(***************************************************************************)
(* Reading the AST.                                                        *)
(***************************************************************************)
\* The child nodes of a node, in source order.
Children(node) ==
  CASE node.type = "Program" -> node.body
    [] node.type = "Module" -> node.fields
    [] node.type = "Func" -> node.body
    [] node.type = "Instr" -> node.args
    [] node.type \in {"BlockInstruction", "LoopInstruction"} -> node.instr
    [] node.type = "IfInstruction" -> node.test \o node.consequent \o node.alternate
    [] node.type \in {"CallInstruction", "CallIndirectInstruction"} -> node.instrArgs
    [] node.type = "Global" -> node.init
    [] node.type = "Elem" -> node.offset
    [] node.type = "ModuleImport" -> <<node.descr>>
    [] OTHER -> <<>>

StructuredIds == {"block", "if", "loop"}

\* Some Instr node in the tree of `node` has the id of a structured instruction.
RECURSIVE HasStructuredInstr(_)
HasStructuredInstr(node) ==
  \/ node.type = "Instr" /\ node.id \in StructuredIds
  \/ \E i \in DOMAIN Children(node) : HasStructuredInstr(Children(node)[i])

\* Some Func in the tree of `node` has such an Instr in its body.
RECURSIVE HasFuncWithStructuredInstr(_)
HasFuncWithStructuredInstr(node) ==
  \/ node.type = "Func" /\ \E i \in DOMAIN node.body : HasStructuredInstr(node.body[i])
  \/ \E i \in DOMAIN Children(node) : HasFuncWithStructuredInstr(Children(node)[i])

\* The kind of name the parser generates for a node, "" when it generates none,
\* and the identifier of the node that holds it.
NameKind(node) ==
  CASE node.type = "Func" -> "func"
    [] node.type = "Memory" -> "memory"
    [] node.type = "Table" -> "table"
    [] node.type = "Global" -> "global"
    [] node.type = "BlockInstruction" -> "block"
    [] node.type = "LoopInstruction" -> "loop"
    [] node.type = "IfInstruction" -> "if"
    [] OTHER -> ""

NameOf(node) ==
  CASE node.type \in {"Func", "Memory"} -> node.id
    [] node.type \in {"Table", "Global"} -> node.name
    [] OTHER -> node.label

\* The generated names in the tree of `node`, one entry per node that got one.
RECURSIVE GeneratedNames(_)
RECURSIVE GeneratedNamesOfAll(_)
GeneratedNames(node) ==
  (IF NameKind(node) # "" /\ "raw" \in DOMAIN NameOf(node)
   THEN <<[kind |-> NameKind(node), name |-> NameOf(node).value]>> ELSE <<>>)
  \o GeneratedNamesOfAll(Children(node))
GeneratedNamesOfAll(nodes) ==
  IF nodes = <<>> THEN <<>>
  ELSE GeneratedNames(Head(nodes)) \o GeneratedNamesOfAll(Tail(nodes))

\* The number of forms at depth 0 of a token list: the parenthesised forms and
\* the tokens outside every form.
RECURSIVE TopLevelFormsFrom(_, _, _)
TopLevelFormsFrom(tokens, i, depth) ==
  IF i > Len(tokens) THEN 0
  ELSE IF tokens[i].type = "openParen" THEN TopLevelFormsFrom(tokens, i + 1, depth + 1)
  ELSE IF tokens[i].type = "closeParen"
    THEN (IF depth = 1 THEN 1 ELSE 0)
         + TopLevelFormsFrom(tokens, i + 1, IF depth > 0 THEN depth - 1 ELSE 0)
  ELSE (IF depth = 0 THEN 1 ELSE 0) + TopLevelFormsFrom(tokens, i + 1, depth)

TopLevelForms(tokens) == TopLevelFormsFrom(tokens, 1, 0)

\* Every close paren of tokens[i..] closes an open one and no form stays open.
RECURSIVE BalancedFrom(_, _, _)
BalancedFrom(tokens, i, depth) ==
  IF i > Len(tokens) THEN depth = 0
  ELSE IF tokens[i].type = "openParen" THEN BalancedFrom(tokens, i + 1, depth + 1)
  ELSE IF tokens[i].type = "closeParen"
    THEN depth > 0 /\ BalancedFrom(tokens, i + 1, depth - 1)
  ELSE BalancedFrom(tokens, i + 1, depth)

Balanced(tokens) == BalancedFrom(tokens, 1, 0)

(***************************************************************************)
(* Claims about the shorthand-export buffer.                               *)
(***************************************************************************)
\* A field is the synthesized ModuleExport of a buffered export.
SynthesizedFor(field, e) ==
  /\ field.type = "ModuleExport"
  /\ ~HasLoc(field)
  /\ field.name = e.name
  /\ field.descr.exportType = e.exportType
  /\ field.descr.id.value = e.id.value

SameExport(e1, e2) ==
  e1.name = e2.name /\ e1.exportType = e2.exportType /\ e1.id.value = e2.id.value

\* C1: for every module M that parse returned and every shorthand export E
\* registered while one of M's fields was parsed, M.fields holds the
\* synthesized ModuleExport of E (same name, same exportType, same id value)
\* exactly once per registration: none is lost, none is emitted twice.
\* (Runs that register an export outside every module are left aside here.)
C1_ShorthandExportsOnce ==
  status = "returned" /\ (\A j \in DOMAIN regLog : regLog[j].mod # 0) =>
    \A k \in DOMAIN modLog : \A j \in DOMAIN regLog :
      regLog[j].mod = modLog[k].serial =>
        Cardinality({i \in DOMAIN modLog[k].node.fields :
                       SynthesizedFor(modLog[k].node.fields[i], regLog[j].entry)})
        = Cardinality({n \in DOMAIN regLog :
                         /\ regLog[n].mod = modLog[k].serial
                         /\ SameExport(regLog[n].entry, regLog[j].entry)})

\* The source field that registered the buffered export e: its own name is
\* the id the export was buffered with.
ExportingField(field, e) ==
  HasLoc(field) /\ NameKind(field) # "" /\ NameOf(field).value = e.id.value

\* The position of the synthesized ModuleExport of e behind its exporting
\* field, with no source field in between; 0 when there is none.
FlushedAt(fields, e) ==
  LET at == {n \in DOMAIN fields :
               /\ SynthesizedFor(fields[n], e)
               /\ \E i \in 1..(n - 1) :
                    /\ ExportingField(fields[i], e)
                    /\ \A m \in (i + 1)..n : ~HasLoc(fields[m])}
  IN IF at = {} THEN 0 ELSE CHOOSE n \in at : \A m \in at : n <= m

\* C2: inside parseModule the buffer is flushed after each field: the
\* synthesized ModuleExport of every shorthand export of a field stands in the
\* module's fields behind that field and before the next source field, in the
\* order of registration, and the buffer is empty whenever the parsing of a
\* next field of the module starts.
C2_FlushedAfterEachField ==
  /\ Stepping("parseModule", "fields") /\ Top.moduleFields # <<>>
       => registredExportedElements = <<>>
  /\ status = "returned" =>
       \A k \in DOMAIN modLog :
         LET fields == modLog[k].node.fields
             own == {j \in DOMAIN regLog : regLog[j].mod = modLog[k].serial}
         IN /\ \A j \in own : FlushedAt(fields, regLog[j].entry) # 0
            /\ \A i, j \in own :
                 i < j => FlushedAt(fields, regLog[i].entry)
                            <= FlushedAt(fields, regLog[j].entry)

(***************************************************************************)
(* Claims about structured instructions.                                   *)
(***************************************************************************)
\* C3: in every Func that parse returns, no Instr node anywhere in the body
\* has the id "block", "if" or "loop".
C3_NoStructuredInstrInFunc ==
  status = "returned" => ~HasFuncWithStructuredInstr(result)

\* C4: instruction(id, args) and objectInstruction(id, object, args) both
\* throw an assertion error when id is "block", "if" or "loop", so no builder
\* returns an Instr with such an id.
C4_BuildersRejectStructuredIds ==
  astCall.builder \in {"instruction", "objectInstruction"}
    /\ astCall.id \in StructuredIds /\ astResult # Undefined
  => astResult = AssertionError

(***************************************************************************)
(* Claims about generated names.                                           *)
(***************************************************************************)
\* <kind>_n for some n the counter of the kind has passed.
DrawnFromCounter(g) ==
  \E n \in 0..(inc[g.kind] - 1) : g.name = g.kind \o "_" \o ToString(n)

C6_ErrorsCarryCodeFrame ==
  status = "thrown" => error = "CodeFrame"

\* C7: for a token list whose parentheses balance, the Program parse returns
\* has one body node per top-level form of the token list, and for the input
\* (module) it is a single Module with id null and no fields.
C7_OneNodePerTopLevelForm ==
  status = "returned" /\ Balanced(tokensList) =>
    /\ Len(result.body) = TopLevelForms(tokensList)
    /\ tokensList = ModuleOf(<<>>) => result = program(<<withLoc(module(Null, <<>>))>>)

(***************************************************************************)
(* Claims about instructions and their operands.                           *)
(***************************************************************************)
\* A token list ( module ( func <body> ) ) whose body holds name, valtype and
\* dot tokens only.
IsPlainFuncModule(tokens) ==
  /\ Len(tokens) >= 7
  /\ SubSeq(tokens, 1, 4) = <<LP, KW("module"), LP, KW("func")>>
  /\ SubSeq(tokens, Len(tokens) - 1, Len(tokens)) = <<RP, RP>>
  /\ \A i \in 5..(Len(tokens) - 2) : tokens[i].type \in {"name", "valtype", "dot"}

\* The ids of the plain instructions <name> and <valtype> . <name> in
\* tokens[i..n], in source order.
RECURSIVE PlainInstrIds(_, _, _)
PlainInstrIds(tokens, i, n) ==
  IF i > n THEN <<>>
  ELSE IF tokens[i].type = "valtype" /\ i + 2 <= n
    THEN <<tokens[i + 2].value>> \o PlainInstrIds(tokens, i + 3, n)
  ELSE <<tokens[i].value>> \o PlainInstrIds(tokens, i + 1, n)

\* C8: a function body written as a sequence of plain instructions is
\* accepted and yields one Instr per instruction in source order, also when
\* an instruction without operand is directly followed by another one
\* (nop nop, i32.add i32.mul).
C8_PlainSequencesAccepted ==
  IsPlainFuncModule(tokensList) =>
    /\ status # "thrown"
    /\ status = "returned" =>
         LET fnBody == result.body[1].fields[1].body
         IN [i \in DOMAIN fnBody |-> fnBody[i].id]
              = PlainInstrIds(tokensList, 5, Len(tokensList) - 2)

\* The type the signature gives the i-th number operand, f64 when it gives
\* none.
SignatureType(sig, i) ==
  LET given == IF sig.vector THEN sig.types[1] ELSE sig.types[i]
  IN IF given = "" THEN "f64" ELSE given

IsNumberLiteral(node) == node.type = "NumberLiteral"

\* C9: every number token consumed as a positional operand becomes a
\* NumberLiteral typed as the opcode signature types that operand position,
\* f64 when the signature gives no type there, and an instruction whose
\* signature is not a vector and has length n consumes at most n number
\* tokens as operands.
C9_NumberOperandsTyped ==
  \A k \in DOMAIN stack :
    stack[k].fn = "parseFuncInstrArguments" /\ stack[k].pc # "start" =>
      LET numbers == SelectSeq(stack[k].args, IsNumberLiteral)
          sig == stack[k].signature
      IN /\ ~sig.vector => Len(numbers) <= Len(sig.types)
         /\ \A i \in DOMAIN numbers : numbers[i].numtype = SignatureType(sig, i)

\* parseFuncInstrArguments has consumed the n numbers its signature types,
\* the first as an i32, and the next token is one more number.
C9_Witness ==
  /\ Stepping("parseFuncInstrArguments", "args")
  /\ ~Top.signature.vector
  /\ Len(Top.signature.types) = 1
  /\ Len(SelectSeq(Top.args, IsNumberLiteral)) = 1
  /\ Top.args[1].type = "NumberLiteral" /\ Top.args[1].numtype = "i32"
  /\ TypeAt(current) = "number"

\* ( module ( memory ( data "s" ) ) )
MemoryDataModule(s) ==
  ModuleOf(<<Form(<<KW("memory")>> \o Form(<<KW("data"), STR(s)>>))>>)

DataStrings == {"hi", "\\00"}

\* C10: a memory with an inline ( data "s" ) and no numeric limits is parsed
\* to a Memory whose limits.min is the length in bytes of the decoded string
\* (the escape \00 is one byte).
C10_MemoryDataLimits ==
  \A s \in DataStrings :
    status = "returned" /\ tokensList = MemoryDataModule(s) =>
      result.body[1].fields[1].limits.min = Len(parseString(s))

(***************************************************************************)
(* The kernel.  frames is the stack of the frames being executed, the last *)
(* one the frame whose code runs; a frame below it is inside the           *)
(* createAndExecuteChildStackFrame of its instruction at pc.  executed     *)
(* keeps, for each instruction the kernel dispatched, the depth of its     *)
(* frame and its place in the code.                                        *)
(***************************************************************************)
TopFrame == frames[Len(frames)]
Finished(f) == f.trapped \/ f.pc > Len(f.code)
Executes == execStatus = "running" /\ frames # <<>>
Current == TopFrame.code[TopFrame.pc]
Executing(id) == Executes /\ ~Finished(TopFrame) /\ Current.id = id

\* The frame after an instruction returned: a trap returned or pushed stops
\* the frame, anything else moves it to the next instruction.
Yield(o) ==
  IF isTrapped(o.val) THEN [o.f EXCEPT !.trapped = TRUE]
  ELSE IF o.f.trapped THEN o.f
  ELSE [o.f EXCEPT !.pc = @ + 1]

\* The kernel after the instruction of the frame at depth d gave o, with
\* below the frames under it.
Proceed(below, o) ==
  /\ IF Raised(o)
       THEN /\ frames' = Append(below, o.f)
            /\ execStatus' = "thrown"
            /\ execError' = o.err
       ELSE /\ frames' = Append(below, Yield(o))
            /\ UNCHANGED <<execStatus, execError>>
  /\ UNCHANGED <<execResult, parserVars, astVars, valueVars>>

Dispatched ==
  executed' = Append(executed, [depth |-> Len(frames), pc |-> TopFrame.pc, id |-> Current.id])

Resume(below, o) == Proceed(below, o) /\ UNCHANGED instanceVars

Handled(o) == Dispatched /\ Resume(SubSeq(frames, 1, Len(frames) - 1), o)

\* As Handled, for an instruction that works on the allocator.
HandledStore(o) ==
  /\ Dispatched
  /\ Proceed(SubSeq(frames, 1, Len(frames) - 1), o)
  /\ allocator' = o.store
  /\ UNCHANGED <<moduleNode, instance>>

exec_get_local == Executing("get_local") /\ Handled(get_local(Current, TopFrame))

exec_set_local ==
  Executing("set_local") /\ ~HasInit(Current) /\ Handled(set_local(Current, TopFrame, JsUndef))

exec_tee_local ==
  Executing("tee_local") /\ ~HasInit(Current) /\ Handled(tee_local(Current, TopFrame, JsUndef))

exec_const == Executing("const") /\ Handled(const(Current, TopFrame))
exec_add == Executing("add") /\ Handled(add(Current, TopFrame))
exec_mul == Executing("mul") /\ Handled(mul(Current, TopFrame))
exec_sub == Executing("sub") /\ Handled(sub(Current, TopFrame))
exec_div_s == Executing("div_s") /\ Handled(div_s(Current, TopFrame))
exec_div_u == Executing("div_u") /\ Handled(div_u(Current, TopFrame))
exec_div == Executing("div") /\ Handled(div(Current, TopFrame))
exec_min == Executing("min") /\ Handled(min(Current, TopFrame))
exec_max == Executing("max") /\ Handled(max(Current, TopFrame))
exec_copysign == Executing("copysign") /\ Handled(copysign(Current, TopFrame))

exec_set_global ==
  Executing("set_global") /\ HandledStore(set_global(Current, TopFrame, instance, allocator))

exec_get_global ==
  Executing("get_global") /\ HandledStore(get_global(Current, TopFrame, instance, allocator))

\* An instruction that produces a trap.
exec_unreachable == Executing("unreachable") /\ Handled(Done(TopFrame, Trap))

\* set_local and tee_local with an init: the child frame starts.
createAndExecuteChildStackFrame ==
  /\ Executes /\ ~Finished(TopFrame)
  /\ Current.id \in {"set_local", "tee_local"}
  /\ HasInit(Current)
  /\ Dispatched
  /\ frames' = Append(frames, createChildStackFrame(TopFrame, <<Arg(Current, 1)>>))
  /\ UNCHANGED <<execStatus, execError, execResult, parserVars, astVars, valueVars,
                 instanceVars>>

\* The frame that called the child frame on top.
Parent == frames[Len(frames) - 1]
ChildReturns(id) ==
  /\ Executes /\ Len(frames) >= 2 /\ Finished(TopFrame)
  /\ Parent.code[Parent.pc].id = id

\* The child frame of set_local has stopped: the rest of set_local.
set_local_init ==
  /\ ChildReturns("set_local")
  /\ Resume(SubSeq(frames, 1, Len(frames) - 2),
            set_local(Parent.code[Parent.pc], Parent, FrameResult(TopFrame)))
  /\ UNCHANGED executed

\* The child frame of tee_local has stopped: the rest of tee_local.
tee_local_init ==
  /\ ChildReturns("tee_local")
  /\ Resume(SubSeq(frames, 1, Len(frames) - 2),
            tee_local(Parent.code[Parent.pc], Parent, FrameResult(TopFrame)))
  /\ UNCHANGED executed

\* The frame executeStackFrame was called with has stopped.
executeStackFrame_return ==
  /\ Executes /\ Len(frames) = 1 /\ Finished(TopFrame)
  /\ execStatus' = "returned"
  /\ execResult' = FrameResult(TopFrame)
  /\ UNCHANGED <<frames, execError, executed, parserVars, astVars, valueVars,
                 instanceVars>>

(***************************************************************************)
(* The frames executed: a binary operation on two locals, in frames of     *)
(* zero, one and two locals, and the instructions on locals in stack form  *)
(* and with an init.                                                       *)
(***************************************************************************)
ValueTypes == <<"i32", "i64", "f32", "f64">>
BinaryIds == {"add", "sub", "mul", "div", "div_s", "div_u", "min", "max", "copysign"}

\* The integers and the floats the locals hold.
IntegerOperands == {0, 1, 2, 3, 10}
FloatOperands ==
  {Float(0), NegZero, NaN, Infinity(FALSE), Infinity(TRUE), Float(2), Float(10),
   Fin(-5, 1, FALSE), Fin(1, 2, FALSE)}

ValuesOfType(type) ==
  IF type \in IntegerTypes THEN {castIntoStackLocalOfType(type, n) : n \in IntegerOperands}
  ELSE {[type |-> type, value |-> x] : x \in FloatOperands}

LocalsOfType(type) ==
  {<<>>} \cup {<<a>> : a \in ValuesOfType(type)}
  \cup {<<a, b>> : a, b \in ValuesOfType(type)}

Op(object, id, args) == objectInstruction(id, JsStr(object), Arr(args), <<>>)
Plain(id, args) == instruction(id, Arr(args), <<>>)

\* get_local 0; get_local 1; T.op
BinaryProgram(type, id) ==
  <<Plain("get_local", <<numberLiteral(0)>>), Plain("get_local", <<numberLiteral(1)>>),
    Op(type, id, <<>>)>>

BinaryFrames ==
  UNION {{createStackFrame(BinaryProgram(ValueTypes[t], id), locals) :
            id \in BinaryIds, locals \in LocalsOfType(ValueTypes[t])} :
         t \in DOMAIN ValueTypes}

\* The index of a local: absent, a number in and past the locals, a name.
LocalIndices == {numberLiteral(0), numberLiteral(1), identifier("x")}
LocalInits ==
  {Op("i32", "const", <<numberLiteral(5)>>),
   Plain("unreachable", <<>>),
   Plain("get_local", <<numberLiteral(0)>>),
   Plain("set_local", <<numberLiteral(1), Op("i32", "const", <<numberLiteral(7)>>)>>),
   Plain("tee_local", <<numberLiteral(1), Op("i32", "const", <<numberLiteral(7)>>)>>),
   Plain("tee_local", <<numberLiteral(0), Plain("unreachable", <<>>)>>)}
LocalArgs ==
  {<<>>} \cup {<<index>> : index \in LocalIndices}
  \cup {<<index, init>> : index \in LocalIndices, init \in LocalInits}

\* What is on the stack before the instruction, and the instruction after it.
Pushes == {<<>>, <<Op("i32", "const", <<numberLiteral(3)>>)>>}
After == <<Op("i32", "const", <<numberLiteral(9)>>)>>

LocalFrames ==
  {createStackFrame(pushes \o <<Plain(id, args)>> \o After, locals) :
     pushes \in Pushes, id \in {"get_local", "set_local", "tee_local"}, args \in LocalArgs,
     locals \in {<<>>, <<castIntoStackLocalOfType("i32", 1)>>,
                 <<castIntoStackLocalOfType("i32", 1), castIntoStackLocalOfType("i32", 2)>>}}

\* const without a number, and an operation without an object.
OtherFrames ==
  {createStackFrame(<<Op("i32", "const", args)>>, <<>>) :
     args \in {<<>>, <<identifier("x")>>}}
  \cup {createStackFrame(<<Op("f32", "const", <<numberLiteral(1)>>),
                           Op("f32", "const", <<numberLiteral(2)>>), Plain(id, <<>>)>>, <<>>) :
          id \in BinaryIds}

\* The globals of the module the frames belong to: a const and a var i32, as
\* global.createInstance makes them, after a func in the allocator; the
\* last global address is one no instance is at.
GlobalStore ==
  <<[type |-> "Func", node |-> 0],
    [type |-> "i32", mutability |-> "const", value |-> FromInt(10)],
    [type |-> "i32", mutability |-> "var", value |-> FromInt(20)]>>

GlobalModule ==
  [exports |-> <<>>, funcaddrs |-> <<>>, memaddrs |-> <<>>,
   globaladdrs |-> <<[type |-> "Global", index |-> 2], [type |-> "Global", index |-> 3],
                     [type |-> "Global", index |-> 4]>>,
   step |-> "returned", at |-> 1]

\* The argument of set_global and get_global: none, a NumberLiteral, a
\* number, a name.
GlobalArgs ==
  {<<>>, <<identifier("g")>>}
  \cup {<<numberLiteral(n)>> : n \in 0..3} \cup {<<JsNum(n)>> : n \in 0..3}

\* [push 3;] set_global x; get_global y, and get_global x alone.
GlobalFrames ==
  {createStackFrame(pushes \o <<Plain("set_global", x), Plain("get_global", y)>>, <<>>) :
     pushes \in Pushes, x \in GlobalArgs, y \in GlobalArgs}
  \cup {createStackFrame(<<Plain("get_global", x)>> \o After, <<>>) : x \in GlobalArgs}

\* i32.const 3; get_local 0; get_local 1; T.op
DeepProgram(type, id) ==
  <<Op("i32", "const", <<numberLiteral(3)>>)>> \o BinaryProgram(type, id)

\* The binary instructions on the locals [3, 2] of their type, above an i32.
DeepFrames ==
  UNION {{createStackFrame(DeepProgram(ValueTypes[t], id),
                           <<castIntoStackLocalOfType(ValueTypes[t], 3),
                             castIntoStackLocalOfType(ValueTypes[t], 2)>>) :
            id \in BinaryIds} :
         t \in DOMAIN ValueTypes}

ParserIdle ==
  /\ tokensList = <<>>
  /\ status = "idle"
  /\ ParseEntry
  /\ astCall = NoAstCall
  /\ astResult = Undefined

InitExec ==
  /\ ParserIdle
  /\ ValuesIdle
  /\ \/ /\ frames \in {<<f>> : f \in BinaryFrames \cup DeepFrames \cup LocalFrames \cup OtherFrames}
        /\ InstanceIdle
     \/ /\ frames \in {<<f>> : f \in GlobalFrames}
        /\ moduleNode = Undefined
        /\ allocator = GlobalStore
        /\ instance = GlobalModule
  /\ execStatus = "running"
  /\ execResult = Undefined
  /\ execError = "none"
  /\ executed = <<>>

NextExec ==
  \/ exec_get_local \/ exec_set_local \/ exec_tee_local
  \/ createAndExecuteChildStackFrame \/ set_local_init \/ tee_local_init
  \/ exec_const \/ exec_add \/ exec_mul \/ exec_sub
  \/ exec_div_s \/ exec_div_u \/ exec_div
  \/ exec_min \/ exec_max \/ exec_copysign
  \/ exec_set_global \/ exec_get_global
  \/ exec_unreachable
  \/ executeStackFrame_return

SpecExec == InitExec /\ [][NextExec]_vars

(***************************************************************************)
(* Binary operations on two locals.                                        *)
(***************************************************************************)
\* The frame executeStackFrame was called with.
Root == frames[1]

\* The payload of an integer type for the integer n: n modulo 2^32 or 2^64.
IntegerPayload(type, n) ==
  LET c1 == n \div Limb
      c2 == c1 \div Limb
  IN JsNumber(IF type = "i64" THEN (c2 \div Limb) % Limb ELSE 0,
              IF type = "i64" THEN c2 % Limb ELSE 0, c1 % Limb, n % Limb, FALSE)

\* What T.id gives on the locals a and b: a + b, a * b, b - a, b / a.
Arithmetic(type, id, a, b) ==
  IF type \in IntegerTypes
    THEN IntegerPayload(type,
           CASE id = "add" -> ToInt(a) + ToInt(b)
             [] id = "mul" -> ToInt(a) * ToInt(b)
             [] id = "sub" -> ToInt(b) - ToInt(a)
             [] OTHER -> ToInt(b) \div ToInt(a))
  ELSE CASE id = "add" -> FloatAdd(a, b)
         [] id = "mul" -> FloatMul(a, b)
         [] id = "sub" -> FloatSub(b, a)
         [] OTHER -> FloatDiv(b, a)

ArithmeticIds == {"add", "sub", "mul", "div", "div_s", "div_u"}
DivIds == {"div", "div_s", "div_u"}

\* The frame runs get_local 0; get_local 1; T.id on n locals.
RunsBinary(type, id, n) ==
  /\ frames # <<>>
  /\ Root.code = BinaryProgram(type, id)
  /\ Len(Root.locals) = n

ZeroDivisor(type, id) ==
  type \in IntegerTypes /\ id \in DivIds /\ ToInt(Root.locals[1].value) = 0

\* C11: executing [get_local 0; get_local 1; T.op] on the locals [a, b] of
\* type T returns the value typed T whose payload is a + b for add, a * b for
\* mul, b - a for sub and b / a for div, div_s and div_u alike.
C11_BinaryOnLocals ==
  \A t \in DOMAIN ValueTypes : \A id \in ArithmeticIds :
    RunsBinary(ValueTypes[t], id, 2) /\ ~ZeroDivisor(ValueTypes[t], id)
    /\ Len(executed) = 3 =>
      /\ execStatus \in {"running", "returned"}
      /\ execStatus = "returned" =>
           execResult = [type |-> ValueTypes[t],
                         value |-> Arithmetic(ValueTypes[t], id, Root.locals[1].value,
                                              Root.locals[2].value)]

\* div_s on the i32 locals [2, 10] has returned 5.
C11_Witness ==
  /\ RunsBinary("i32", "div_s", 2)
  /\ ToInt(Root.locals[1].value) = 2 /\ ToInt(Root.locals[2].value) = 10
  /\ execStatus = "returned"
  /\ execResult = [type |-> "i32", value |-> FromInt(5)]

\* C12: in a frame with one local the same program throws an assertion
\* error at get_local 1, and executeStackFrame returns no value.
C12_MissingLocalAsserts ==
  \A t \in DOMAIN ValueTypes : \A id \in BinaryIds :
    RunsBinary(ValueTypes[t], id, 1) =>
      /\ execStatus # "returned"
      /\ execResult = Undefined
      /\ Len(executed) >= 2 => execStatus = "thrown" /\ execError = "AssertionError"
      /\ Len(executed) <= 2

\* i32.add on one local has thrown at its second get_local.
C12_Witness ==
  /\ RunsBinary("i32", "add", 1)
  /\ execStatus = "thrown" /\ execError = "AssertionError"
  /\ Len(executed) = 2 /\ executed[2].id = "get_local"

(***************************************************************************)
(* i32.createValue called directly on a number.                            *)
(***************************************************************************)
\* The limbs of the numbers createValue is called with: the ends of a limb
\* and 1.
LimbsDrawn == {0, 1, Limb - 1}
TopsDrawn == {-1, 0, 1}

CreateValueArgs ==
  {JsNumber(top, l2, l1, l0, frac) :
     top \in TopsDrawn, l2 \in LimbsDrawn, l1 \in LimbsDrawn, l0 \in LimbsDrawn,
     frac \in BOOLEAN}

InitValues ==
  /\ ParserIdle
  /\ ExecIdle /\ InstanceIdle
  /\ createValueArg \in CreateValueArgs
  /\ createValueResult = Undefined

call_createValue ==
  /\ createValueArg \in CreateValueArgs
  /\ createValueResult = Undefined
  /\ createValueResult' = i32_createValue(createValueArg)
  /\ UNCHANGED <<createValueArg, parserVars, astVars, execVars, instanceVars>>

NextValues == call_createValue

SpecValues == InitValues /\ [][NextValues]_vars

C14_MinMaxZeroAndNaN ==
  \A type \in FloatTypes : \A id \in {"min", "max"} :
    RunsBinary(type, id, 2) /\ Len(executed) = 3 =>
      LET a == Root.locals[1].value
          b == Root.locals[2].value
      IN /\ execStatus \in {"running", "returned"}
         /\ execStatus = "returned" =>
              /\ execResult.type = type
              /\ IF a.f = "nan" \/ b.f = "nan" THEN execResult.value.f = "nan"
                 ELSE IF IsZero(a) /\ IsZero(b)
                   THEN /\ IsZero(execResult.value)
                        /\ execResult.value.neg =
                             (IF id = "min" THEN a.neg \/ b.neg ELSE a.neg /\ b.neg)
                 ELSE /\ execResult.value \in {a, b}
                      /\ IF id = "min"
                           THEN ~FloatLess(a, execResult.value)
                                /\ ~FloatLess(b, execResult.value)
                           ELSE ~FloatLess(execResult.value, a)
                                /\ ~FloatLess(execResult.value, b)

\* f64.min on the locals [+0, -0] has returned -0.
C14_Witness ==
  /\ RunsBinary("f64", "min", 2)
  /\ Root.locals[1].value = Float(0) /\ Root.locals[2].value = NegZero
  /\ execStatus = "returned"
  /\ execResult = [type |-> "f64", value |-> NegZero]

ChildTrapped ==
  /\ Executes /\ Len(frames) >= 2 /\ Finished(TopFrame)
  /\ isTrapped(FrameResult(TopFrame))
  /\ Parent.code[Parent.pc].id \in {"set_local", "tee_local"}

\* C16: when the child frame of a set_local or tee_local with an init
\* returns a trap, the instruction returns the trap to its frame, which
\* yields it: the locals and the value stack of the frame stay as they
\* were, no instruction is dispatched from then on, and the trap is what
\* executeStackFrame returns.
C16_ChildTrapPropagates ==
  /\ [][(ChildTrapped =>
            /\ Len(frames') = Len(frames) - 1
            /\ frames'[Len(frames')] = [Parent EXCEPT !.trapped = TRUE]
            /\ execStatus' = "running")
        /\ (frames # <<>> /\ TopFrame.trapped => executed' = executed)]_vars
  /\ [](execStatus = "returned" /\ Root.trapped => execResult = Trap)

\* A frame whose set_local 0 had an init that trapped has returned the trap
\* with its local as it was and the instruction after it not dispatched.
C16_Witness ==
  /\ execStatus = "returned" /\ execResult = Trap
  /\ Root.code[1].id = "set_local" /\ HasInit(Root.code[1])
  /\ Arg(Root.code[1], 0) = numberLiteral(0)
  /\ Root.locals = <<castIntoStackLocalOfType("i32", 1)>>
  /\ Root.values = <<>>
  /\ Len(executed) = 2

(***************************************************************************)
(* The index of get_local, set_local and tee_local.                        *)
(***************************************************************************)
\* The instruction reads or writes a local and has no index, or an index
\* that is no NumberLiteral.
BadIndex(instr) ==
  /\ instr.id \in {"get_local", "set_local", "tee_local"}
  /\ \/ Arg(instr, 0) = JsUndef
     \/ Arg(instr, 0).type # "NumberLiteral"

\* C17: get_local, set_local and tee_local without an index, or with an
\* index that is no NumberLiteral, throw a RuntimeError, with an init and
\* without one; the frames stay as they were, so no local and no value
\* changes and no child frame is started.
C17_BadIndexRaises ==
  [][Executes /\ ~Finished(TopFrame) /\ BadIndex(Current) =>
       /\ execStatus' = "thrown"
       /\ execError' = "RuntimeError"
       /\ frames' = frames]_vars

(***************************************************************************)
(* The effect of set_local.                                                *)
(***************************************************************************)
\* locals after is locals before with the local x replaced by value.
OnlyLocalSet(before, after, x, value) ==
  /\ x + 1 \in DOMAIN after
  /\ after[x + 1] = value
  /\ \A i \in DOMAIN before : i # x + 1 => i \in DOMAIN after /\ after[i] = before[i]

\* set_local x without an init is about to run on a stack that is not empty.
SetLocalPops ==
  /\ Executing("set_local") /\ ~HasInit(Current) /\ ~BadIndex(Current)
  /\ TopFrame.values # <<>>

\* The child frame of a set_local x has stopped without a trap.
SetLocalInitReturns ==
  /\ ChildReturns("set_local") /\ ~isTrapped(FrameResult(TopFrame))
  /\ ~BadIndex(Parent.code[Parent.pc])

\* C20: after set_local x without an init the value stack is one shorter
\* and local x is the value that was on top; after set_local x with an init
\* the value stack is as it was and local x is what the child frame
\* returned.  Every other local is as it was.
C20_SetLocalEffect ==
  [][/\ SetLocalPops =>
          LET after == frames'[Len(frames')]
          IN /\ Len(frames') = Len(frames)
             /\ after.values = SubSeq(TopFrame.values, 1, Len(TopFrame.values) - 1)
             /\ OnlyLocalSet(TopFrame.locals, after.locals, Arg(Current, 0).value,
                             TopFrame.values[Len(TopFrame.values)])
     /\ SetLocalInitReturns =>
          LET after == frames'[Len(frames')]
          IN /\ Len(frames') = Len(frames) - 1
             /\ after.values = Parent.values
             /\ OnlyLocalSet(Parent.locals, after.locals,
                             Arg(Parent.code[Parent.pc], 0).value, FrameResult(TopFrame))]_vars

\* set_local 1 has run on the locals [1, 2] with 3 on the stack.
C20_Witness ==
  /\ frames # <<>> /\ Len(Root.code) = 3
  /\ Root.code[2].id = "set_local" /\ Root.code[2].args = <<numberLiteral(1)>>
  /\ Root.pc = 3
  /\ Root.values = <<>>
  /\ Root.locals = <<castIntoStackLocalOfType("i32", 1), castIntoStackLocalOfType("i32", 3)>>

(***************************************************************************)
(* The sequence parameters of the AST builders.                            *)
(***************************************************************************)
\* The values the builder called got for its sequence parameters, a
\* parameter with a default taking it when it is left undefined.
SequenceParameters(call) ==
  CASE call.builder \in {"instruction", "objectInstruction"} -> {DefaultArray(call.args)}
    [] call.builder = "module" -> {call.fields}
    [] call.builder = "func" -> {call.params, call.body}
    [] call.builder \in {"loopInstruction", "blockInstruction"} -> {call.instr}
    [] call.builder = "ifInstruction" -> {call.consequent, call.alternate}
    [] call.builder = "funcImportDescr" ->
         {DefaultArray(call.params), DefaultArray(call.results)}
    [] call.builder = "brTableInstruction" -> {call.labels}
    [] OTHER -> {}

\* C19: every AST builder that takes a sequence (module fields, func params
\* and body, instruction args, block and loop instr, if consequent and
\* alternate, funcImportDescr params and results, br_table labels) throws an
\* assertion error when the value it gets for it is not an array.
C19_SequenceParametersAsserted ==
  astResult # Undefined /\ (\E v \in SequenceParameters(astCall) : ~isArrayLike(v))
    => astResult = AssertionError

(***************************************************************************)
(* Module instantiation.  createInstance walks the fields of the module    *)
(* twice: it allocates an instance for each func and memory, then records  *)
(* an export for each ModuleExport.  The allocator is the sequence of the  *)
(* instances allocated, an address the place of an instance in it.         *)
(***************************************************************************)
\* moduleExport naming the export by the id of what it exports.
AST_moduleExport_NamedById(name, type, id) ==
  [type |-> "ModuleExport", name |-> id, descr |-> [type |-> type, id |-> id]]

AST_moduleExport(name, type, id) ==
  [type |-> "ModuleExport", name |-> name, descr |-> [type |-> type, id |-> id]]

\* The most fields of a module instantiated.
MaxInstanceFields == 3

\* The calls that build the fields of a module.
FieldCalls ==
  {[builder |-> "func", id |-> "f"], [builder |-> "func", id |-> "g"],
   [builder |-> "memory", id |-> "m"],
   [builder |-> "moduleExport", name |-> "f", id |-> "f"],
   [builder |-> "moduleExport", name |-> "g2", id |-> "g"]}

FieldOf(call) ==
  CASE call.builder = "func" -> AST_func(identifier(call.id), Arr(<<>>), Null, Arr(<<>>))
    [] call.builder = "memory" -> memory(limit(1), identifier(call.id))
    [] call.builder = "moduleExport" -> AST_moduleExport(call.name, "Func", call.id)

RECURSIVE FieldCallLists(_)
FieldCallLists(n) ==
  IF n = 0 THEN {<<>>}
  ELSE FieldCallLists(n - 1)
       \cup {Append(calls, c) : calls \in FieldCallLists(n - 1), c \in FieldCalls}

\* Every export names a func of the module, and no two funcs share an id.
WellFormedFields(calls) ==
  /\ \A i \in DOMAIN calls :
       calls[i].builder = "moduleExport" =>
         \E j \in DOMAIN calls : calls[j].builder = "func" /\ calls[j].id = calls[i].id
  /\ \A i, j \in DOMAIN calls :
       calls[i].builder = "func" /\ calls[j].builder = "func" /\ calls[i].id = calls[j].id
         => i = j

InstanceInputs == {calls \in FieldCallLists(MaxInstanceFields) : WellFormedFields(calls)}

ModuleOfCalls(calls) ==
  AST_module([js |-> "null", s |-> ""], Arr([i \in DOMAIN calls |-> FieldOf(calls[i])]))

\* malloc: the address of the next instance.
malloc(type) == [type |-> type, index |-> Len(allocator) + 1]

Fields == moduleNode.fields.items

\* The address recorded for the func named id.
FuncAddr(id) == (CHOOSE e \in {instance.funcaddrs[i] : i \in DOMAIN instance.funcaddrs} :
                   e.id = id).addr

createInstance_start ==
  /\ moduleNode # Undefined /\ instance = Undefined
  /\ instance' = [exports |-> <<>>, funcaddrs |-> <<>>, memaddrs |-> <<>>,
                  step |-> "allocate", at |-> 1]
  /\ UNCHANGED <<moduleNode, allocator, parserVars, astVars, execVars, valueVars>>

\* The first walk: an instance for a func or a memory, nothing for an export.
createInstance_allocate ==
  /\ instance # Undefined /\ instance.step = "allocate"
  /\ instance.at <= Len(Fields)
  /\ LET field == Fields[instance.at]
     IN IF field.type = "Func"
          THEN /\ allocator' = Append(allocator, [type |-> "Func", node |-> instance.at])
               /\ instance' = [instance EXCEPT
                    !.funcaddrs = Append(@, [id |-> field.id.value, addr |-> malloc("Func")]),
                    !.at = @ + 1]
        ELSE IF field.type = "Memory"
          THEN /\ allocator' = Append(allocator, [type |-> "Memory", node |-> instance.at])
               /\ instance' = [instance EXCEPT !.memaddrs = Append(@, malloc("Memory")),
                                               !.at = @ + 1]
        ELSE /\ instance' = [instance EXCEPT !.at = @ + 1]
             /\ UNCHANGED allocator
  /\ UNCHANGED <<moduleNode, parserVars, astVars, execVars, valueVars>>

createInstance_walkExports ==
  /\ instance # Undefined /\ instance.step = "allocate"
  /\ instance.at > Len(Fields)
  /\ instance' = [instance EXCEPT !.step = "export", !.at = 1]
  /\ UNCHANGED <<moduleNode, allocator, parserVars, astVars, execVars, valueVars>>

\* The second walk: {name, value: {type, addr}} for a ModuleExport.
createInstance_export ==
  /\ instance # Undefined /\ instance.step = "export"
  /\ instance.at <= Len(Fields)
  /\ LET field == Fields[instance.at]
     IN instance' =
          IF field.type = "ModuleExport"
            THEN [instance EXCEPT
                    !.exports = Append(@, [name |-> field.name,
                                           value |-> [type |-> field.descr.type,
                                                      addr |-> FuncAddr(field.descr.id)]]),
                    !.at = @ + 1]
          ELSE [instance EXCEPT !.at = @ + 1]
  /\ UNCHANGED <<moduleNode, allocator, parserVars, astVars, execVars, valueVars>>

createInstance_return ==
  /\ instance # Undefined /\ instance.step = "export"
  /\ instance.at > Len(Fields)
  /\ instance' = [instance EXCEPT !.step = "returned"]
  /\ UNCHANGED <<moduleNode, allocator, parserVars, astVars, execVars, valueVars>>

\* The allocator is new, or holds an instance already.
InitInstance ==
  /\ ParserIdle
  /\ ExecIdle /\ ValuesIdle
  /\ moduleNode \in {ModuleOfCalls(calls) : calls \in InstanceInputs}
  /\ allocator \in {<<>>, <<[type |-> "Memory", node |-> 0]>>}
  /\ instance = Undefined

NextInstance ==
  \/ createInstance_start \/ createInstance_allocate \/ createInstance_walkExports
  \/ createInstance_export \/ createInstance_return

SpecInstance == InitInstance /\ [][NextInstance]_vars

\* The places of the export calls in calls, in order.
RECURSIVE ExportCalls(_)
ExportCalls(calls) ==
  IF calls = <<>> THEN <<>>
  ELSE (IF calls[1].builder = "moduleExport" THEN <<calls[1]>> ELSE <<>>)
       \o ExportCalls(Tail(calls))

TeeLocalPops ==
  /\ Executing("tee_local") /\ ~HasInit(Current) /\ ~BadIndex(Current)
  /\ TopFrame.values # <<>>

\* The child frame of a tee_local x has stopped without a trap.
TeeLocalInitReturns ==
  /\ ChildReturns("tee_local") /\ ~isTrapped(FrameResult(TopFrame))
  /\ ~BadIndex(Parent.code[Parent.pc])

\* C21: after tee_local x without an init, on a stack with v on top, the
\* stack is as it was, v still on top, and local x is v; after tee_local x
\* with an init the stack is one entry deeper, the result of the child frame
\* on top, and local x is that result.
C21_TeeLocalEffect ==
  [][/\ TeeLocalPops =>
          LET after == frames'[Len(frames')]
          IN /\ Len(frames') = Len(frames)
             /\ execStatus' = "running"
             /\ after.values = TopFrame.values
             /\ OnlyLocalSet(TopFrame.locals, after.locals, Arg(Current, 0).value,
                             TopFrame.values[Len(TopFrame.values)])
     /\ TeeLocalInitReturns =>
          LET after == frames'[Len(frames')]
          IN /\ Len(frames') = Len(frames) - 1
             /\ execStatus' = "running"
             /\ after.values = Append(Parent.values, FrameResult(TopFrame))
             /\ OnlyLocalSet(Parent.locals, after.locals,
                             Arg(Parent.code[Parent.pc], 0).value, FrameResult(TopFrame))]_vars

\* tee_local 0 with the init i32.const 5 has run on the local [1] with 3 on
\* the stack: 3 and 5 on the stack, 5 in the local.
C21_Witness ==
  /\ frames # <<>> /\ Len(frames) = 1 /\ Len(Root.code) = 3
  /\ Root.code[2].id = "tee_local" /\ HasInit(Root.code[2])
  /\ Root.pc = 3
  /\ Root.values = <<castIntoStackLocalOfType("i32", 3), castIntoStackLocalOfType("i32", 5)>>
  /\ Root.locals = <<castIntoStackLocalOfType("i32", 5)>>

(***************************************************************************)
(* Globals.                                                                *)
(***************************************************************************)
\* The place in globaladdrs an argument names: the value of a NumberLiteral
\* or the number itself, and -1 for no argument and for a name.
GlobalIndex(x) ==
  IF "type" \in DOMAIN x /\ x.type = "NumberLiteral" THEN x.value
  ELSE IF "js" \in DOMAIN x /\ x.js = "number" THEN x.n
  ELSE -1

\* x designates a global of the originating module that the allocator holds.
DesignatesGlobal(x) ==
  /\ "type" \in DOMAIN x /\ x.type = "NumberLiteral"
  /\ GlobalIndex(x) + 1 \in DOMAIN instance.globaladdrs
  /\ instance.globaladdrs[GlobalIndex(x) + 1].index \in DOMAIN allocator

\* The originating module has no global address for x.
NoGlobalAddress(x) == GlobalIndex(x) + 1 \notin DOMAIN instance.globaladdrs

\* C22: for a NumberLiteral x that designates an allocated global, set_global
\* x pops the value v on top of the stack and writes it to the allocator
\* entry at globaladdrs[x], and to no other, and get_global x pushes the
\* value of that entry, so that get_global x after set_global x pushes a
\* value equal to v; for an x with no global address both throw a
\* RuntimeError and leave the stack and the allocator as they were.
C22_GlobalRoundTrip ==
  [][/\ Executing("set_global") /\ DesignatesGlobal(Arg(Current, 0))
        /\ TopFrame.values # <<>> =>
          LET a == instance.globaladdrs[GlobalIndex(Arg(Current, 0)) + 1].index
          IN /\ execStatus' = "running"
             /\ frames'[Len(frames')].values
                  = SubSeq(TopFrame.values, 1, Len(TopFrame.values) - 1)
             /\ allocator'[a].value = TopFrame.values[Len(TopFrame.values)].value
             /\ \A i \in DOMAIN allocator : i # a => allocator'[i] = allocator[i]
     /\ Executing("get_global") /\ DesignatesGlobal(Arg(Current, 0)) =>
          LET a == instance.globaladdrs[GlobalIndex(Arg(Current, 0)) + 1].index
              after == frames'[Len(frames')].values
          IN /\ execStatus' = "running"
             /\ Len(after) = Len(TopFrame.values) + 1
             /\ after[Len(after)].type = allocator[a].type
             /\ after[Len(after)].value = allocator[a].value
             /\ allocator' = allocator
     /\ (Executing("set_global") \/ Executing("get_global"))
        /\ NoGlobalAddress(Arg(Current, 0)) =>
          /\ execStatus' = "thrown" /\ execError' = "RuntimeError"
          /\ frames' = frames
          /\ allocator' = allocator]_vars

\* C28: the instance of a const global keeps its value: no instruction
\* executed, set_global on its index included, changes it.
C28_ConstGlobalKeepsValue ==
  [][\A i \in DOMAIN allocator :
       "mutability" \in DOMAIN allocator[i] /\ allocator[i].mutability = "const" =>
         i \in DOMAIN allocator' /\ allocator'[i] = allocator[i]]_vars

(***************************************************************************)
(* Unsupported objects.                                                    *)
(***************************************************************************)
\* The instruction is min, max or copysign on an integer type, or add, sub,
\* mul or div (div_s and div_u are div) on no value type.
UnsupportedObject(instr) ==
  \/ instr.id \in {"min", "max", "copysign"} /\ ObjectOf(instr) \in IntegerTypes
  \/ instr.id \in ArithmeticIds /\ ObjectOf(instr) \notin IntegerTypes \cup FloatTypes

\* C23: min, max and copysign on i32 or i64, and add, sub, mul and div on an
\* object that is no value type, throw a RuntimeError before an operand is
\* popped: the frames, their stacks and locals, and the allocator are as
\* they were.
C23_UnsupportedObjectRaises ==
  [][\A id \in BinaryIds :
       Executing(id) /\ UnsupportedObject(Current) =>
         /\ execStatus' = "thrown"
         /\ execError' = "RuntimeError"
         /\ frames' = frames
         /\ allocator' = allocator]_vars

\* i32.min has thrown with its two operands still on the stack.
C23_Witness ==
  /\ RunsBinary("i32", "min", 2)
  /\ Root.pc = 3
  /\ Root.values = Root.locals
  /\ execStatus = "thrown"
  /\ execError = "RuntimeError"

(***************************************************************************)
(* Data segments.                                                          *)
(***************************************************************************)
\* ( module ( data <index>? <offset> "s" ) )
DataModule(index, offset, s) ==
  ModuleOf(<<Form(<<KW("data")>> \o index \o offset \o <<STR(s)>>)>>)

I32ConstOffset == I32Const("0")
GetGlobalOffset == Form(<<NM("get_global"), NUM("0")>>)

\* The offsets of the data segments: ( i32.const 0 ), ( get_global 0 ),
\* ( f32.const 0 ), ( nop 0 ).
DataOffsets ==
  {I32ConstOffset, GetGlobalOffset,
   Form(<<VT("f32"), DOT, NM("const"), NUM("0")>>), Form(<<NM("nop"), NUM("0")>>)}

DataIndices == {<<>>, <<NUM("0")>>}

\* C24: a data form is parsed to a Data whose memoryIndex is 0 when the form
\* has no numeric index, whose init holds the decoded bytes of the string,
\* and whose offset is the Instr i32.const n only for ( i32.const n ) and
\* the Instr get_global n only for ( get_global n ); a form with another
\* offset, as ( f32.const 0 ) or ( nop 0 ), is rejected.
C24_DataOffsetForms ==
  \A index \in DataIndices : \A offset \in DataOffsets : \A s \in {"a", "hi"} :
    tokensList = DataModule(index, offset, s) =>
      /\ status = "returned" =>
           LET data == result.body[1].fields[1]
           IN /\ data.type = "Data"
              /\ index = <<>> => data.memoryIndex = 0
              /\ data.init.values = parseString(s)
              /\ data.offset.type = "Instr"
              /\ data.offset.id = "const" => offset = I32ConstOffset
              /\ data.offset.id = "get_global" => offset = GetGlobalOffset
      /\ offset \notin {I32ConstOffset, GetGlobalOffset} => status # "returned"

(***************************************************************************)
(* The module a synthesized export belongs to.                             *)
(***************************************************************************)
\* C25: every synthesized ModuleExport in the fields of a module M that parse
\* returned is that of a shorthand export registered while one of M's own
\* fields was parsed: none comes from a form parsed at top level or from
\* another module.
C25_SynthesizedExportsAreOwn ==
  status = "returned" =>
    \A k \in DOMAIN modLog :
      LET fields == modLog[k].node.fields
      IN \A i \in DOMAIN fields :
           fields[i].type = "ModuleExport" /\ ~HasLoc(fields[i]) =>
             \E j \in DOMAIN regLog :
               /\ regLog[j].mod = modLog[k].serial
               /\ SynthesizedFor(fields[i], regLog[j].entry)

(***************************************************************************)
(* Balanced parentheses.                                                   *)
(***************************************************************************)
\* ( module ( table 1 ) )
TableModule == ModuleOf(<<Form(<<KW("table"), NUM("1")>>)>>)

\* C26: parse returns a Program only for a token list whose parentheses
\* balance; no sub-parser consumes the close paren of the form around it, so
\* ( module ( table 1 ) ) ) is rejected and ( module ( table 1 ) ) is
\* accepted.
C26_OnlyBalancedAccepted ==
  /\ status = "returned" => Balanced(tokensList)
  /\ tokensList = TableModule \o <<RP>> => status # "returned"
  /\ tokensList = TableModule => status # "thrown"

(***************************************************************************)
(* Termination.                                                            *)
(***************************************************************************)
\* parse is one synchronous call: while it runs it takes its next step.  This
\* is the weak fairness of Next, with the enabling condition of Next written
\* out for the steps inside walk (Next is enabled exactly while status is
\* "running") and as WF for the steps of parse's own loop.
Fairness ==
  /\ WF_vars(parse_walk \/ parse_push \/ parse_return)
  /\ []<><<Next>>_vars \/ []<>(status # "running")
SpecRuns == Spec /\ Fairness

\* The function at the head of a loop it has been at the head of before has
\* the cursor past where it was then.
LoopAdvanced ==
  status = "running" /\ LoopHead # ""
    /\ iterationStart[Len(stack) + 1].loop = LoopHead
  => current > iterationStart[Len(stack) + 1].cursor

\* The cursor record at the token c.
At(c) == [Here EXCEPT !.cur = c]

\* The table parseTable starts its loop with.
TableStart ==
  [name |-> withRaw(identifier("table_0"), ""), limit |-> limit(0), elemIndices |-> <<>>]

\* At whatever token of the list that is no close paren they start, an
\* iteration of parseTable's loop and one of parseModuleExportDescr's loop
\* end past that token or throw.
IterationsAdvance ==
  \A c \in 0..(Len(tokensList) - 1) :
    Tok(c).type # "closeParen" =>
      /\ LET q == parseTable_iteration(Ret(At(c), TableStart))
         IN Failed(q) \/ q.cur > c
      /\ LET q == parseModuleExportDescr_iteration(At(c), [type |-> "", index |-> Undefined])
         IN Failed(q) \/ q.cur > c

\* C27: parse terminates on every token list, returning a Program or
\* throwing; the cursor never decreases; and every iteration of the loops of
\* parse, parseModule, parseFunc, parseIf, parseCallIndirect, parseElem,
\* parseFuncInstrArguments, parseTable and parseModuleExportDescr advances
\* the cursor by at least one token or throws.
C27_ParseTerminates ==
  /\ <>(status # "running")
  /\ [][current' >= current]_vars
  /\ []LoopAdvanced
  /\ []IterationsAdvance

\* parseModule is at the head of its loop for the second time, two tokens
\* past the first.
C27_Witness ==
  /\ Stepping("parseModule", "fields")
  /\ iterationStart[Len(stack) + 1] = [loop |-> "fields", cursor |-> 2]
  /\ current = 4

(***************************************************************************)
(* Generated names and the names of the source.                            *)
(***************************************************************************)
\* The names in the tree of `node`, one entry per node of a named kind, with
\* whether the parser generated the name.
RECURSIVE Names(_)
RECURSIVE NamesOfAll(_)
Names(node) ==
  (IF NameKind(node) # "" /\ "value" \in DOMAIN NameOf(node)
   THEN <<[kind |-> NameKind(node), name |-> NameOf(node).value,
           generated |-> "raw" \in DOMAIN NameOf(node)]>>
   ELSE <<>>)
  \o NamesOfAll(Children(node))
NamesOfAll(nodes) ==
  IF nodes = <<>> THEN <<>>
  ELSE Names(Head(nodes)) \o NamesOfAll(Tail(nodes))

\* C29: in the Program parse returns, a node with a generated name and
\* another node of the same kind, with a generated name or with a name of
\* the source, never carry the same identifier value.
C29_GeneratedNamesFresh ==
  status = "returned" =>
    LET names == Names(result)
    IN \A i, j \in DOMAIN names :
         i # j /\ names[i].kind = names[j].kind /\ names[i].generated =>
           names[i].name # names[j].name

(***************************************************************************)
(* The effect of the numeric binary instructions on the frame.             *)
(***************************************************************************)
\* The two entries on top of the value stack of f have the type object.
OperandsOn(f, object) ==
  /\ Len(f.values) >= 2
  /\ f.values[Len(f.values)].type = object
  /\ f.values[Len(f.values) - 1].type = object

\* C30: a numeric binary instruction (add, sub, mul, div, div_s, div_u, min,
\* max, copysign) that completes without error or trap on a value stack
\* whose two top entries have the type instruction.object leaves the stack
\* one entry shorter, with a value of the type instruction.object on top,
\* the entries below the two operands as they were, and the locals as they
\* were.
C30_BinaryStackEffect ==
  [][\A id \in BinaryIds :
       (/\ Executing(id)
        /\ OperandsOn(TopFrame, ObjectOf(Current))
        /\ execStatus' = "running"
        /\ ~frames'[Len(frames')].trapped) =>
         LET before == TopFrame.values
             after == frames'[Len(frames')]
             n == Len(before)
         IN /\ Len(frames') = Len(frames)
            /\ Len(after.values) = n - 1
            /\ after.values[n - 1].type = ObjectOf(Current)
            /\ SubSeq(after.values, 1, n - 2) = SubSeq(before, 1, n - 2)
            /\ after.locals = TopFrame.locals]_vars

\* i64.mul has run on 3 and 2 above the i32 3: the i32 3 and the i64 6 are
\* on the stack.
C30_Witness ==
  /\ frames # <<>>
  /\ Root.code = DeepProgram("i64", "mul")
  /\ Root.pc = 5
  /\ Root.locals = <<castIntoStackLocalOfType("i64", 3), castIntoStackLocalOfType("i64", 2)>>
  /\ Root.values = <<castIntoStackLocalOfType("i32", 3), castIntoStackLocalOfType("i64", 6)>>

====
